---- MODULE Spec2Model ----
(***************************************************************************)
(* A model of imlight's layered DMX composition and addressing engine:     *)
(* fixture/__init__.py (FixtureProfile, Layer, LayerManager, ActiveFixture,*)
(* DMXUniverse) and the handlers of app.py that drive it (UniversesWindow,*)
(* PatchWindow, CommanderWindow, LayersWindow, App), with the DMX drivers  *)
(* and their sender threads, and the selection made with the mouse.        *)
(*                                                                         *)
(* Numbers.  DMX values are bytes 0..255.  A ShowLayer priority is a float *)
(* in the code; the model writes it as an integer count of quarters, so    *)
(* 4 stands for 1.0, 2 for 0.5, 0 for 0.0 and 6 for 1.5.  Every such       *)
(* priority is a dyadic rational with at most three significant bits, so   *)
(* the float32 product  uint8 * priority  that compose() forms is exact,   *)
(* and the model's integer arithmetic in quarter units computes the very   *)
(* value numpy computes (values of the form k/100 that are not dyadic,     *)
(* such as 0.53, are inexact in float32 and are not among the inputs).     *)
(*                                                                         *)
(* Indices.  Sequences are 1-based: slot s of a numpy array is element     *)
(* s + 1 of the sequence that models it.                                   *)
(***************************************************************************)
EXTENDS Integers, Sequences, FiniteSets, Bags, TLC

VARIABLES
    layers,             \* App.layers: the global registry, a list of ShowLayer
    universes,          \* App.universes: a list of DMXUniverse
    selected_fixtures,  \* App.selected_fixtures: a list of fixture identities
    active_layer_name,  \* App.active_layer_name
    ev,                 \* what the last handler reported: done, or its error
    driver_init_error,  \* UniversesWindow.driver_init_error
    threads             \* the sender threads alive: a bag of OlaDMXDriver identities

vars == <<layers, universes, selected_fixtures, active_layer_name, ev,
          driver_init_error, threads>>

-----------------------------------------------------------------------------
(* Bounds of the model *)

MaxUniverses == 2       \* universes alive at once
MaxFixtures == 2        \* ActiveFixture objects alive at once
MaxThreads == 2         \* sender threads alive at once
MaxFrames == 4          \* frames that a file logger counts

(* Program constants *)

UNIVERSE_SIZE == 512    \* slots of a DMX universe
DMX_MAX == 255          \* largest channel value
DEFAULT_PRIORITY == 4   \* ShowLayer.priority = 1.0, in quarters

-----------------------------------------------------------------------------
(* Small helpers *)

Max(a, b) == IF a >= b THEN a ELSE b
Min(a, b) == IF a <= b THEN a ELSE b
Range(s) == {s[i] : i \in 1..Len(s)}
Zeros(n) == [i \in 1..n |-> 0]
RemoveAt(s, i) == SubSeq(s, 1, i - 1) \o SubSeq(s, i + 1, Len(s))

-----------------------------------------------------------------------------
(* Fixture profiles: the model name and the channel names in offset order;  *)
(* channel i of the tuple has relative_offset i - 1.                        *)

RGB_PAR == [model |-> "RGB PAR", channels |-> <<"red", "green", "blue">>]
DIMMER == [model |-> "Dimmer", channels |-> <<"intensity">>]

(* A FixtureProfile that needs a whole universe: 512 channels. *)
FULL_UNIVERSE ==
    [model |-> "Full",
     channels |-> [i \in 1..512 |-> IF i = 1 THEN "intensity" ELSE "ch" \o ToString(i)]]

channel_count(profile) == Len(profile.channels)
InChannelMap(profile, name) == name \in Range(profile.channels)
\* channel_map[name].relative_offset
relative_offset(profile, name) ==
    (CHOOSE i \in 1..Len(profile.channels) : profile.channels[i] = name) - 1

-----------------------------------------------------------------------------
(* App.get_show_layer: the first ShowLayer of that name, or None *)

HasShowLayer(reg, name) == \E i \in 1..Len(reg) : reg[i].name = name
get_show_layer(reg, name) ==
    reg[CHOOSE i \in 1..Len(reg) :
            /\ reg[i].name = name
            /\ \A j \in 1..(i - 1) : reg[j].name # name]

(* Layer.__init__: a layer of zeros *)
NewLayer(name, profile) == [name |-> name, dmx_values |-> Zeros(channel_count(profile))]

(* LayerManager.__contains__ and the lookup of an existing layer *)
HasLayer(lyrs, name) == \E i \in 1..Len(lyrs) : lyrs[i].name = name
LayerIndex(lyrs, name) == CHOOSE i \in 1..Len(lyrs) : lyrs[i].name = name

-----------------------------------------------------------------------------
(* ActiveFixture.compose.  composed_values is held in quarter units.        *)

\* layer.dmx_values.astype(float32) * priority, elementwise
Modulate(dmx_values, priority) == [i \in 1..Len(dmx_values) |-> dmx_values[i] * priority]

\* np.maximum(composed_values, modulated_values, out=composed_values)
Maximum(a, b) == [i \in 1..Len(a) |-> Max(a[i], b[i])]

\* np.clip(composed_values, 0, 255, out=composed_values)
Clip(a) == [i \in 1..Len(a) |-> Min(Max(a[i], 0), DMX_MAX * DEFAULT_PRIORITY)]

\* composed_values.astype(np.uint8): the fraction is dropped
AsUint8(a) == [i \in 1..Len(a) |-> a[i] \div DEFAULT_PRIORITY]

\* a variant of the loop that takes the highest value and ignores priorities
RECURSIVE ComposeLoopUnweighted(_, _, _, _)
ComposeLoopUnweighted(reg, lyrs, i, composed) ==
    IF i > Len(lyrs) THEN composed
    ELSE ComposeLoopUnweighted(reg, lyrs, i + 1,
             Maximum(composed, Modulate(lyrs[i].dmx_values, DEFAULT_PRIORITY)))

RECURSIVE ComposeLoop(_, _, _, _)
ComposeLoop(reg, lyrs, i, composed) ==
    IF i > Len(lyrs) THEN composed
    ELSE IF ~HasShowLayer(reg, lyrs[i].name)
         THEN ComposeLoop(reg, lyrs, i + 1, composed)
         ELSE LET priority == get_show_layer(reg, lyrs[i].name).priority
              IN  IF priority > 0
                  THEN ComposeLoop(reg, lyrs, i + 1,
                                   Maximum(composed, Modulate(lyrs[i].dmx_values, priority)))
                  ELSE ComposeLoop(reg, lyrs, i + 1, composed)

\* the new _final_dmx_values of a fixture with these layers
ComposedValues(reg, profile, lyrs) ==
    AsUint8(Clip(ComposeLoop(reg, lyrs, 1, Zeros(channel_count(profile)))))

compose(reg, f) == [f EXCEPT !.final = ComposedValues(reg, f.profile, f.layers)]

-----------------------------------------------------------------------------
(* ActiveFixture.__init__ *)

\* a variant of the guard that is off by one: it refuses the last address that fits
FitsBelowLast(profile, start_address) ==
    /\ 1 <= start_address
    /\ start_address <= UNIVERSE_SIZE - channel_count(profile)

\* the guard of the constructor: the fixture fits at this address
FitsInUniverse(profile, start_address) ==
    /\ 1 <= start_address
    /\ start_address <= UNIVERSE_SIZE - channel_count(profile) + 1

\* the object built when the guard passes: a zero layer per ShowLayer, composed
ActiveFixtureInit(reg, id, profile, start_address) ==
    compose(reg,
            [id |-> id,
             profile |-> profile,
             start_address |-> start_address,
             layers |-> [i \in 1..Len(reg) |-> NewLayer(reg[i].name, profile)],
             final |-> Zeros(channel_count(profile))])

-----------------------------------------------------------------------------
(* DMX drivers.  A driver object is a record; an OlaDMXDriver carries the    *)
(* identity id, by which its sender threads are known.  _wrapper is "None",  *)
(* "running" (a ClientWrapper whose Run() a thread executes) or "stopped"    *)
(* (a ClientWrapper after Stop()).  _file_handle is "None" or "open".        *)
(* The record of an OlaDMXDriver also holds what the two threads that run    *)
(* its methods have in hand: update_pc is where the main thread is inside    *)
(* update(), tick_pc where the sender thread is inside _ola_tick() and       *)
(* data_to_send what that call has read; events counts the calls of          *)
(* _ola_tick that the wrapper has scheduled; sent is the data of the last    *)
(* SendDmx, <<>> before the first.  given and taken are history: the last    *)
(* frame whose copy update() completed, and the value of given when the      *)
(* tick in progress took the lock.  The record of a FileLogDMXDriver holds   *)
(* in written the numbers of the frames whose lines it has written.          *)

NoError == [kind |-> "none"]
\* the text of the DriverInitError that OlaDMXDriver raises
OLAD_NOT_RUNNING == "Failed to connect to OLA daemon (olad). Please ensure it is running."

DriverInitError == [kind |-> "DriverInitError", message |-> OLAD_NOT_RUNNING]

\* universe.driver is None
NoDriver == [kind |-> "None"]

\* DebugDMXDriver()
DebugDMXDriver == [kind |-> "Debug"]

\* OlaDMXDriver(): the default config, no wrapper, no thread
OlaDMXDriver(id) ==
    [kind |-> "OLA", id |-> id, config |-> [universe |-> 1], wrapper |-> "None",
     dmx_data |-> Zeros(UNIVERSE_SIZE), lock |-> "free", events |-> 0,
     update_pc |-> "out", tick_pc |-> "out",
     data_to_send |-> Zeros(UNIVERSE_SIZE), sent |-> <<>>,
     given |-> Zeros(UNIVERSE_SIZE), taken |-> Zeros(UNIVERSE_SIZE)]

\* the sender threads other than those of driver id
WithoutThreadsOf(thr, id) == [d \in (DOMAIN thr) \ {id} |-> thr[d]]

\* a variant of OlaDMXDriver.on_config_changed that starts the new wrapper
\* and thread and neither stops the old wrapper nor joins the old thread
Ola_on_config_changed_nostop(d, thr, olad_running) ==
    IF ~olad_running
    THEN [driver |-> d, threads |-> thr, error |-> DriverInitError]
    ELSE [driver |-> [d EXCEPT !.wrapper = "running", !.events = 1],
          threads |-> thr (+) SetToBag({d.id}),
          error |-> NoError]

\* OlaDMXDriver.on_config_changed: Stop() ends Run() of the old wrapper and
\* join() waits for that thread; ClientWrapper() raises when olad is not
\* running, and the old, stopped wrapper then stays in _wrapper; otherwise a
\* thread is started on the new wrapper and AddEvent schedules one call of
\* _ola_tick on it; what the old wrapper had scheduled goes with it
Ola_on_config_changed(d, thr, olad_running) ==
    LET had == d.wrapper # "None"
        stopped == IF had THEN [d EXCEPT !.wrapper = "stopped", !.events = 0] ELSE d
        joined == IF had THEN WithoutThreadsOf(thr, d.id) ELSE thr
    IN  IF ~olad_running
        THEN [driver |-> stopped, threads |-> joined, error |-> DriverInitError]
        ELSE [driver |-> [stopped EXCEPT !.wrapper = "running", !.events = 1],
              threads |-> joined (+) SetToBag({d.id}),
              error |-> NoError]

\* FileLogDMXDriver.on_config_changed: close the handle, then open the file
\* named in the config unless the name is empty; an IOError of open() is
\* printed and the handle stays None
FileLog_on_config_changed(d, thr, can_open) ==
    [driver |-> [d EXCEPT !.file_handle =
                     IF d.config.filename # "" /\ can_open THEN "open" ELSE "None"],
     threads |-> thr,
     error |-> NoError]

\* FileLogDMXDriver(): the default config, then on_config_changed()
FileLogDMXDriver(can_open) ==
    FileLog_on_config_changed(
        [kind |-> "File Logger",
         config |-> [enabled |-> TRUE, filename |-> "dmx_log.txt", log_interval |-> 1],
         frame_count |-> 0,
         file_handle |-> "None",
         written |-> <<>>],
        EmptyBag, can_open).driver

\* driver.on_config_changed() of whichever class the driver has: the driver
\* and the threads afterwards, and the error raised
on_config_changed(d, thr, olad_running, can_open) ==
    IF d.kind = "OLA" THEN Ola_on_config_changed(d, thr, olad_running)
    ELSE IF d.kind = "File Logger" THEN FileLog_on_config_changed(d, thr, can_open)
    ELSE [driver |-> d, threads |-> thr, error |-> NoError]

\* DRIVERS, by clean_name, and the entries of the combo box
DRIVERS == {"OLA", "File Logger", "Debug"}
DriverNames == DRIVERS \cup {"None"}

\* the CONFIG_PARAMS of the driver's class are not empty
HasConfigParams(d) == d.kind \in {"OLA", "File Logger"}

-----------------------------------------------------------------------------
(* DMXUniverse *)

NewUniverse == [fixtures |-> <<>>, frame |-> Zeros(UNIVERSE_SIZE), driver |-> NoDriver]

fixture_end(f) == f.start_address + channel_count(f.profile) - 1

\* a variant of the overlap test with strict comparisons: it misses ranges that
\* share only an end address
OverlapsStrict(new, existing) ==
    /\ new.start_address < fixture_end(existing)
    /\ fixture_end(new) > existing.start_address

\* the test of add_fixture's loop for one existing fixture
Overlaps(new, existing) ==
    /\ new.start_address <= fixture_end(existing)
    /\ fixture_end(new) >= existing.start_address

\* self.fixtures.sort(key=start_address) after an append to a sorted list:
\* the sort is stable, so the new fixture goes after every fixture whose key is
\* not larger
RECURSIVE SortedInsert(_, _)
SortedInsert(fixtures, f) ==
    IF fixtures = <<>> THEN <<f>>
    ELSE IF Head(fixtures).start_address <= f.start_address
         THEN <<Head(fixtures)>> \o SortedInsert(Tail(fixtures), f)
         ELSE <<f>> \o fixtures

\* add_fixture: the error it raises, or NoError
AddFixtureError(fixtures, f) ==
    IF fixture_end(f) > UNIVERSE_SIZE
    THEN [kind |-> "overflow", model |-> f.profile.model, at |-> f.start_address]
    ELSE IF \E i \in 1..Len(fixtures) : Overlaps(f, fixtures[i])
         THEN LET i == CHOOSE i \in 1..Len(fixtures) :
                            /\ Overlaps(f, fixtures[i])
                            /\ \A j \in 1..(i - 1) : ~Overlaps(f, fixtures[j])
              IN  [kind |-> "conflict", model |-> f.profile.model, at |-> f.start_address,
                   existing_model |-> fixtures[i].profile.model,
                   existing_start |-> fixtures[i].start_address]
         ELSE NoError

\* a variant of add_fixture that appends before it checks
add_fixture_unchecked(fixtures, f) == SortedInsert(fixtures, f)

\* add_fixture: the fixture list it leaves
add_fixture(fixtures, f) ==
    IF AddFixtureError(fixtures, f) = NoError THEN SortedInsert(fixtures, f) ELSE fixtures

\* render(): zero-fill, then copy each fixture's composed values to its slots
\* a variant of the copy that takes start_address for the first slot
RECURSIVE RenderLoopShifted(_, _, _)
RenderLoopShifted(fixtures, i, frame) ==
    IF i > Len(fixtures) THEN frame
    ELSE LET f == fixtures[i]
             start == f.start_address
             end == start + channel_count(f.profile)
         IN  RenderLoopShifted(fixtures, i + 1,
                               [s \in 1..Len(frame) |->
                                   IF start <= s - 1 /\ s - 1 < end
                                   THEN f.final[s - start] ELSE frame[s]])

RECURSIVE RenderLoop(_, _, _)
RenderLoop(fixtures, i, frame) ==
    IF i > Len(fixtures) THEN frame
    ELSE LET f == fixtures[i]
             start == f.start_address - 1
             end == start + channel_count(f.profile)
         IN  RenderLoop(fixtures, i + 1,
                        [s \in 1..Len(frame) |->
                            IF start <= s - 1 /\ s - 1 < end
                            THEN f.final[s - start] ELSE frame[s]])

\* a variant of DMXUniverse.render that copies the fixtures over the frame
\* of the tick before, without fill(0)
render_unfilled(u) == RenderLoop(u.fixtures, 1, u.frame)

render(u) == RenderLoop(u.fixtures, 1, Zeros(UNIVERSE_SIZE))

-----------------------------------------------------------------------------
(* App.__init__ *)

\* ev: the handler that last reported a failure and its error; a handler that
\* succeeds leaves Done
None == "None"          \* an Optional[str] that holds no text

NoEvent == [op |-> "init", error |-> NoError]
Done == [op |-> "done", error |-> NoError]

Init ==
    /\ layers = << [name |-> "manual", priority |-> DEFAULT_PRIORITY],
                   [name |-> "effects", priority |-> DEFAULT_PRIORITY],
                   [name |-> "scriptedCues", priority |-> DEFAULT_PRIORITY],
                   [name |-> "cues", priority |-> DEFAULT_PRIORITY] >>
    /\ universes = <<>>
    /\ selected_fixtures = <<>>
    /\ active_layer_name = "manual"
    /\ ev = NoEvent
    /\ driver_init_error = None
    /\ threads = EmptyBag

-----------------------------------------------------------------------------
(* list.remove(x): drops the first element equal to x *)

RECURSIVE RemoveFirst(_, _)
RemoveFirst(s, x) ==
    IF s = <<>> THEN s
    ELSE IF Head(s) = x THEN Tail(s)
         ELSE <<Head(s)>> \o RemoveFirst(Tail(s), x)

FixtureIds(u) == {u.fixtures[i].id : i \in 1..Len(u.fixtures)}

-----------------------------------------------------------------------------
(* Object identity.  A fixture is a Python object; the model names it by a   *)
(* number.  A new object gets the least number that names no object still   *)
(* referenced from a universe or from the selection.  The numbers carry no  *)
(* meaning, so every handler ends by renaming the objects in the order in   *)
(* which the universes list them (then those only the selection holds):     *)
(* states that differ in the names alone are one state.                     *)

AliveIdsOf(univs) == UNION {FixtureIds(univs[i]) : i \in 1..Len(univs)}
AliveIds == AliveIdsOf(universes)
ReferencedIds == AliveIds \cup Range(selected_fixtures)

RECURSIVE FreshIds(_, _)
FreshIds(used, n) ==
    IF n = 0 THEN <<>>
    ELSE LET id == CHOOSE k \in 1..(Cardinality(used) + 1) :
                       /\ k \notin used
                       /\ \A j \in 1..(k - 1) : j \in used
         IN  <<id>> \o FreshIds(used \cup {id}, n - 1)

RECURSIVE IdsInOrder(_, _)
IdsInOrder(univs, i) ==
    IF i > Len(univs) THEN <<>>
    ELSE [k \in 1..Len(univs[i].fixtures) |-> univs[i].fixtures[k].id]
             \o IdsInOrder(univs, i + 1)

NameOrder(univs, sel) ==
    IdsInOrder(univs, 1) \o SelectSeq(sel, LAMBDA id : id \notin AliveIdsOf(univs))

NewName(order, id) ==
    CHOOSE i \in 1..Len(order) : order[i] = id /\ \A j \in 1..(i - 1) : order[j] # id

RenameFixtures(order, fixtures) ==
    [k \in 1..Len(fixtures) |-> [fixtures[k] EXCEPT !.id = NewName(order, @)]]

\* the state a handler leaves: these universes, this selection, this event
Leaves(univs, sel, event) ==
    LET order == NameOrder(univs, sel)
    IN  /\ universes' = [i \in 1..Len(univs) |->
                            [univs[i] EXCEPT !.fixtures = RenameFixtures(order, @)]]
        /\ selected_fixtures' = [i \in 1..Len(sel) |-> NewName(order, sel[i])]
        /\ ev' = event

-----------------------------------------------------------------------------
(* UniversesWindow.draw_content: "Add New Universe" and "Remove" *)

AddUniverse ==
    /\ Len(universes) < MaxUniverses
    /\ Leaves(Append(universes, NewUniverse), selected_fixtures, Done)
    /\ UNCHANGED <<layers, active_layer_name, driver_init_error, threads>>

RemoveUniverse(ui) ==
    /\ ui \in 1..Len(universes)
    /\ LET removed_universe == universes[ui]
       IN  Leaves(RemoveAt(universes, ui),
                  SelectSeq(selected_fixtures,
                            LAMBDA id : id \notin FixtureIds(removed_universe)),
                  Done)
    /\ UNCHANGED <<layers, active_layer_name, driver_init_error, threads>>

\* the identity of a new OlaDMXDriver object: the least one that no attached
\* driver and no live thread bears
OlaIds ==
    {universes[ui].driver.id :
        ui \in {uj \in 1..Len(universes) : universes[uj].driver.kind = "OLA"}}
        \cup DOMAIN threads
FreshDriverId == CHOOSE id \in 1..(Cardinality(OlaIds) + 1) : id \notin OlaIds

\* a variant of the combo handler that leaves the new driver in the slot
\* when its on_config_changed() raised
select_driver_attached(thr, error_text, new_name, id, olad_running, can_open_init, can_open) ==
    IF new_name = "None"
    THEN [driver |-> NoDriver, driver_init_error |-> error_text, threads |-> thr,
          event |-> Done]
    ELSE LET new_driver == IF new_name = "OLA" THEN OlaDMXDriver(id)
                           ELSE IF new_name = "File Logger"
                                THEN FileLogDMXDriver(can_open_init)
                                ELSE DebugDMXDriver
             r == on_config_changed(new_driver, thr, olad_running, can_open)
         IN  IF r.error = NoError
             THEN [driver |-> r.driver, driver_init_error |-> None,
                   threads |-> r.threads, event |-> Done]
             ELSE [driver |-> r.driver, driver_init_error |-> r.error.message,
                   threads |-> r.threads,
                   event |-> [op |-> "driver", error |-> r.error]]

\* the combo handler of one universe row, for a changed entry: the driver slot,
\* driver_init_error and the threads afterwards
select_driver(thr, error_text, new_name, id, olad_running, can_open_init, can_open) ==
    IF new_name = "None"
    THEN [driver |-> NoDriver, driver_init_error |-> error_text, threads |-> thr,
          event |-> Done]
    ELSE LET new_driver == IF new_name = "OLA" THEN OlaDMXDriver(id)
                           ELSE IF new_name = "File Logger"
                                THEN FileLogDMXDriver(can_open_init)
                                ELSE DebugDMXDriver
             r == on_config_changed(new_driver, thr, olad_running, can_open)
         IN  IF r.error = NoError
             THEN [driver |-> r.driver, driver_init_error |-> None,
                   threads |-> r.threads, event |-> Done]
             ELSE [driver |-> NoDriver, driver_init_error |-> r.error.message,
                   threads |-> r.threads,
                   event |-> [op |-> "driver", error |-> r.error]]

\* UniversesWindow.draw_content: another entry is picked in the driver combo
\* of universe ui.  olad_running, can_open_init and can_open are what the
\* environment answers to ClientWrapper() and to the two open() calls.
SelectDriver(ui, new_name, olad_running, can_open_init, can_open) ==
    /\ ui \in 1..Len(universes)
    /\ new_name # universes[ui].driver.kind
    /\ LET r == select_driver(threads, driver_init_error, new_name, FreshDriverId,
                              olad_running, can_open_init, can_open)
       IN  /\ BagCardinality(r.threads) <= MaxThreads
           /\ Leaves([universes EXCEPT ![ui].driver = r.driver],
                     selected_fixtures, r.event)
           /\ driver_init_error' = r.driver_init_error
           /\ threads' = r.threads
    /\ UNCHANGED <<layers, active_layer_name>>

\* UniversesWindow._draw_config_popup: "Save" in the popup opened by the
\* "Configure" button of universe ui, with temp_config as edited.  Only
\* IndexError and AttributeError are caught around it: a DriverInitError
\* leaves the handler and the application's loop.
SaveConfig(ui, temp_config, olad_running, can_open) ==
    /\ ui \in 1..Len(universes)
    /\ HasConfigParams(universes[ui].driver)
    /\ DOMAIN temp_config = DOMAIN universes[ui].driver.config
    /\ LET driver == [universes[ui].driver EXCEPT !.config = temp_config]
           r == on_config_changed(driver, threads, olad_running, can_open)
       IN  /\ BagCardinality(r.threads) <= MaxThreads
           /\ Leaves([universes EXCEPT ![ui].driver = r.driver],
                     selected_fixtures,
                     IF r.error = NoError
                     THEN [op |-> "save", error |-> NoError]
                     ELSE [op |-> "uncaught", error |-> r.error])
           /\ threads' = r.threads
    /\ UNCHANGED <<layers, active_layer_name, driver_init_error>>

-----------------------------------------------------------------------------
(* PatchWindow.patch_fixtures: the loop over fixture_count fixtures.  The    *)
(* result holds the fixture list the handler leaves, how many fixtures it    *)
(* added, the error that ended it (NoError when none did) and the address of *)
(* the fixture being patched when it ended.                                  *)

RECURSIVE PatchLoop(_, _, _, _, _, _, _)
PatchLoop(reg, fixtures, profile, current_address, i, fixture_count, ids) ==
    IF i >= fixture_count
    THEN [fixtures |-> fixtures, added |-> i, error |-> NoError,
          current_address |-> current_address]
    ELSE IF ~FitsInUniverse(profile, current_address)
         THEN [fixtures |-> fixtures, added |-> i,
               error |-> [kind |-> "nofit", model |-> profile.model,
                          at |-> current_address],
               current_address |-> current_address]
         ELSE LET fixture_to_add ==
                      ActiveFixtureInit(reg, ids[i + 1], profile, current_address)
                  error == AddFixtureError(fixtures, fixture_to_add)
              IN  IF error # NoError
                  THEN [fixtures |-> add_fixture(fixtures, fixture_to_add),
                        added |-> i, error |-> error,
                        current_address |-> current_address]
                  ELSE PatchLoop(reg, add_fixture(fixtures, fixture_to_add), profile,
                                 current_address + channel_count(profile),
                                 i + 1, fixture_count, ids)

\* what patch_fixtures leaves in status_message: on success the count, on an
\* error the text of the ValueError
PatchEvent(r) ==
    IF r.error = NoError THEN Done ELSE [op |-> "patch", error |-> r.error]

\* draw_content clamps the typed address (max(1, .)) and the count, then the
\* "Patch Fixtures" button runs patch_fixtures
PatchFixtures(ui, profile, address_input, fixture_count) ==
    /\ ui \in 1..Len(universes)
    /\ LET start_address == Max(1, address_input)
           r == PatchLoop(layers, universes[ui].fixtures, profile, start_address,
                          0, fixture_count, FreshIds(ReferencedIds, fixture_count))
       IN  /\ Cardinality(AliveIds) + r.added <= MaxFixtures
           /\ Leaves([universes EXCEPT ![ui].fixtures = r.fixtures],
                     selected_fixtures, PatchEvent(r))
    /\ UNCHANGED <<layers, active_layer_name, driver_init_error, threads>>

\* a variant of the "Remove" button that takes the fixture out of its universe
\* and leaves the selection alone
RemoveFixture_keeps(ui, fi) ==
    /\ ui \in 1..Len(universes)
    /\ fi \in 1..Len(universes[ui].fixtures)
    /\ Leaves([universes EXCEPT ![ui].fixtures = RemoveAt(@, fi)],
              selected_fixtures, Done)
    /\ UNCHANGED <<layers, active_layer_name, driver_init_error, threads>>

\* PatchWindow.draw_content: the "Remove" button of a patched fixture
RemoveFixture(ui, fi) ==
    /\ ui \in 1..Len(universes)
    /\ fi \in 1..Len(universes[ui].fixtures)
    /\ LET fixture_to_remove == universes[ui].fixtures[fi]
       IN  Leaves([universes EXCEPT ![ui].fixtures = RemoveAt(@, fi)],
                  RemoveFirst(selected_fixtures, fixture_to_remove.id),
                  Done)
    /\ UNCHANGED <<layers, active_layer_name, driver_init_error, threads>>

-----------------------------------------------------------------------------
(* The show: the registry and the universes, which the layer operations      *)
(* change together.                                                          *)

Show(reg, univs) == [layers |-> reg, universes |-> univs]

\* for universe in universes: for fixture in universe.fixtures: fixture = F(fixture)
MapFixtures(univs, F(_)) ==
    [ui \in 1..Len(univs) |->
        [univs[ui] EXCEPT
            !.fixtures = [k \in 1..Len(univs[ui].fixtures) |-> F(univs[ui].fixtures[k])]]]

\* the places <<universe, position>> of the patched fixtures
Positions(univs) ==
    UNION {{<<ui, k>> : k \in 1..Len(univs[ui].fixtures)} : ui \in 1..Len(univs)}

FixtureAt(univs, p) == univs[p[1]].fixtures[p[2]]
AllFixtures(univs) == {FixtureAt(univs, p) : p \in Positions(univs)}

\* where the fixture with this identity is patched
Where(univs, id) == CHOOSE p \in Positions(univs) : FixtureAt(univs, p).id = id

\* a fixture gets a zero layer of this name unless it has one
WithLayer(f, name) ==
    IF HasLayer(f.layers, name) THEN f
    ELSE [f EXCEPT !.layers = Append(f.layers, NewLayer(name, f.profile))]

\* a variant of add_show_layer that registers the name and gives no fixture
\* the new layer
add_show_layer_only(s, name) ==
    IF HasShowLayer(s.layers, name) THEN s
    ELSE [s EXCEPT !.layers =
                       Append(s.layers, [name |-> name, priority |-> DEFAULT_PRIORITY])]

\* App.add_show_layer(name), priority left at its default
add_show_layer(s, name) ==
    IF HasShowLayer(s.layers, name) THEN s
    ELSE [layers |-> Append(s.layers, [name |-> name, priority |-> DEFAULT_PRIORITY]),
          universes |-> MapFixtures(s.universes, LAMBDA f : WithLayer(f, name))]

\* LayerManager.__getitem__: fixture.layers[name] of the fixture at <<ui, k>>
layers_getitem(s, ui, k, name) ==
    IF HasLayer(s.universes[ui].fixtures[k].layers, name) THEN s
    ELSE add_show_layer(
             [s EXCEPT !.universes[ui].fixtures[k] = WithLayer(@, name)], name)

\* the store of Layer.__setattr__ for a channel of the profile and a value in
\* 0..255 (np.uint8 keeps such a value)
StoreChannel(f, layer_name, channel, value) ==
    [f EXCEPT !.layers[LayerIndex(f.layers, layer_name)]
                 .dmx_values[relative_offset(f.profile, channel) + 1] = value]

\* a variant of Layer.__setattr__ that stores and does not recompose
Layer_setattr_stale(reg, f, layer_name, channel, value) ==
    StoreChannel(f, layer_name, channel, value)

\* Layer.__setattr__ for a channel of the profile: store, then owner.compose()
Layer_setattr(reg, f, layer_name, channel, value) ==
    compose(reg, StoreChannel(f, layer_name, channel, value))

\* a variant of Layer.__setattr__ that stores np.uint8(value) and recomposes
\* before it tests the range
Layer__setattr__unchecked(reg, f, layer_name, name, value) ==
    IF InChannelMap(f.profile, name)
    THEN [fixture |-> Layer_setattr(reg, f, layer_name, name, value % (DMX_MAX + 1)),
          error |-> IF 0 <= value /\ value <= DMX_MAX
                    THEN NoError ELSE [kind |-> "value"],
          attribute |-> FALSE]
    ELSE [fixture |-> f, error |-> NoError, attribute |-> TRUE]

\* Layer.__setattr__(name, value) on the layer layer_name of fixture f: the
\* fixture afterwards, the ValueError raised (or NoError), and whether the
\* name went to object.__setattr__ and became a plain attribute of the Layer
Layer__setattr__(reg, f, layer_name, name, value) ==
    IF InChannelMap(f.profile, name)
    THEN IF ~(0 <= value /\ value <= DMX_MAX)
         THEN [fixture |-> f, error |-> [kind |-> "value"], attribute |-> FALSE]
         ELSE [fixture |-> Layer_setattr(reg, f, layer_name, name, value),
               error |-> NoError, attribute |-> FALSE]
    ELSE [fixture |-> f, error |-> NoError, attribute |-> TRUE]

\* what a channel write reports: the error, a stored channel ("done"), or a
\* name taken as a plain attribute with no error
SetattrEvent(r) ==
    IF r.error # NoError THEN [op |-> "setattr", error |-> r.error]
    ELSE IF r.attribute THEN [op |-> "attribute", error |-> NoError]
    ELSE Done

\* layer.<name> = value on an existing layer of the fixture at <<ui, k>>
SetChannel(ui, k, layer_name, name, value) ==
    /\ ui \in 1..Len(universes)
    /\ k \in 1..Len(universes[ui].fixtures)
    /\ HasLayer(universes[ui].fixtures[k].layers, layer_name)
    /\ LET r == Layer__setattr__(layers, universes[ui].fixtures[k],
                                  layer_name, name, value)
       IN  Leaves([universes EXCEPT ![ui].fixtures[k] = r.fixture],
                  selected_fixtures, SetattrEvent(r))
    /\ UNCHANGED <<layers, active_layer_name, driver_init_error, threads>>

\* a variant of LayerManager.__delitem__ that deletes and does not recompose
layers_delitem_stale(reg, f, name) ==
    [f EXCEPT !.layers = RemoveAt(f.layers, LayerIndex(f.layers, name))]

\* LayerManager.__delitem__ for a layer the fixture has: delete, then compose()
layers_delitem(reg, f, name) ==
    compose(reg, [f EXCEPT !.layers = RemoveAt(f.layers, LayerIndex(f.layers, name))])

\* the position of the first ShowLayer of this name
ShowLayerIndex(reg, name) ==
    CHOOSE i \in 1..Len(reg) :
        /\ reg[i].name = name
        /\ \A j \in 1..(i - 1) : reg[j].name # name

\* a variant of App.remove_show_layer that takes the ShowLayer out of the
\* registry and leaves the layers of the fixtures alone
remove_show_layer_registry(s, name) ==
    IF ~HasShowLayer(s.layers, name) THEN s
    ELSE [s EXCEPT !.layers = RemoveAt(s.layers, ShowLayerIndex(s.layers, name))]

\* App.remove_show_layer(name)
remove_show_layer(s, name) ==
    IF ~HasShowLayer(s.layers, name) THEN s
    ELSE LET reg == RemoveAt(s.layers, ShowLayerIndex(s.layers, name))
         IN  [layers |-> reg,
              universes |->
                  MapFixtures(s.universes,
                              LAMBDA f : IF HasLayer(f.layers, name)
                                         THEN layers_delitem(reg, f, name) ELSE f)]

\* the state a handler leaves when it changed the show
LeavesShow(s, sel, event) ==
    /\ layers' = s.layers
    /\ Leaves(s.universes, sel, event)

\* LayerManager.__delitem__(name) with both branches: the fixture afterwards
\* and the KeyError raised for a name the fixture has no layer of
LayerManager_delitem(reg, f, name) ==
    IF HasLayer(f.layers, name)
    THEN [fixture |-> layers_delitem(reg, f, name), error |-> NoError]
    ELSE [fixture |-> f, error |-> [kind |-> "KeyError", name |-> name]]

\* del fixture.layers[name] for the fixture at <<ui, k>>
DelLayer(ui, k, name) ==
    /\ ui \in 1..Len(universes)
    /\ k \in 1..Len(universes[ui].fixtures)
    /\ LET r == LayerManager_delitem(layers, universes[ui].fixtures[k], name)
       IN  Leaves([universes EXCEPT ![ui].fixtures[k] = r.fixture],
                  selected_fixtures,
                  IF r.error = NoError THEN Done
                  ELSE [op |-> "delitem", error |-> r.error])
    /\ UNCHANGED <<layers, active_layer_name, driver_init_error, threads>>

\* App.remove_show_layer(name) for any name: it returns None whether or not
\* the registry holds the name, and raises nothing
RemoveShowLayer(name) ==
    /\ LeavesShow(remove_show_layer(Show(layers, universes), name),
                  selected_fixtures, Done)
    /\ UNCHANGED <<active_layer_name, driver_init_error, threads>>

-----------------------------------------------------------------------------
(* CommanderWindow: the commands select, clear and layer.  A target is "*"   *)
(* (every patched fixture) or "@<address>" (in each universe, the first      *)
(* fixture that starts at the address).                                      *)

AllTarget == [kind |-> "all"]
AddressTarget(address) == [kind |-> "address", address |-> address]

RECURSIVE FindAtAddress(_, _, _)
FindAtAddress(univs, ui, address) ==
    IF ui > Len(univs) THEN <<>>
    ELSE LET hits == SelectSeq(univs[ui].fixtures,
                               LAMBDA f : f.start_address = address)
         IN  (IF hits = <<>> THEN <<>> ELSE <<hits[1].id>>)
                 \o FindAtAddress(univs, ui + 1, address)

find_fixtures(univs, target) ==
    IF target.kind = "all" THEN IdsInOrder(univs, 1)
    ELSE FindAtAddress(univs, 1, target.address)

\* _command_select
CommandSelect(target) ==
    /\ LET fixtures_to_select == find_fixtures(universes, target)
       IN  IF fixtures_to_select = <<>>
           THEN Leaves(universes, selected_fixtures,
                       [op |-> "select", error |-> [kind |-> "notfound"]])
           ELSE Leaves(universes, fixtures_to_select, Done)
    /\ UNCHANGED <<layers, active_layer_name, driver_init_error, threads>>

\* _command_clear
CommandClear ==
    /\ Leaves(universes, <<>>, Done)
    /\ UNCHANGED <<layers, active_layer_name, driver_init_error, threads>>

\* list(a_set): the elements in some order
Orderings(S) ==
    {order \in [1..Cardinality(S) -> S] :
        \A i, j \in 1..Cardinality(S) : order[i] = order[j] => i = j}

\* _command_add: the selection becomes list(set(selection) | found)
CommandAdd(target) ==
    /\ LET fixtures_to_add == find_fixtures(universes, target)
       IN  IF fixtures_to_add = <<>>
           THEN Leaves(universes, selected_fixtures,
                       [op |-> "add", error |-> [kind |-> "notfound"]])
           ELSE \E order \in Orderings(Range(selected_fixtures)
                                          \cup Range(fixtures_to_add)) :
                    Leaves(universes, order, Done)
    /\ UNCHANGED <<layers, active_layer_name, driver_init_error, threads>>

-----------------------------------------------------------------------------
(* Selection with the mouse.  The row of a fixture in the Patch window, its  *)
(* tile in the grid view and its circle in the stage view are drawn for the  *)
(* fixtures the universes hold, so a click names a patched fixture.          *)

\* a click on the fixture at <<ui, k>>: with the modifier key it toggles the
\* fixture, without it the selection is cleared and the fixture is selected
\* unless it was
ClickFixture(ui, k, toggle) ==
    /\ ui \in 1..Len(universes)
    /\ k \in 1..Len(universes[ui].fixtures)
    /\ LET fixture == universes[ui].fixtures[k].id
           is_selected == fixture \in Range(selected_fixtures)
       IN  Leaves(universes,
                  IF toggle
                  THEN IF is_selected THEN RemoveFirst(selected_fixtures, fixture)
                       ELSE Append(selected_fixtures, fixture)
                  ELSE IF is_selected THEN <<>> ELSE <<fixture>>,
                  ev)
    /\ UNCHANGED <<layers, active_layer_name, driver_init_error, threads>>

\* StageviewWindow: a drag that starts on a fixture outside the selection
\* makes that fixture the selection
StageDragStart(ui, k) ==
    /\ ui \in 1..Len(universes)
    /\ k \in 1..Len(universes[ui].fixtures)
    /\ LET fixture == universes[ui].fixtures[k].id
       IN  Leaves(universes,
                  IF fixture \notin Range(selected_fixtures)
                  THEN <<fixture>> ELSE selected_fixtures,
                  ev)
    /\ UNCHANGED <<layers, active_layer_name, driver_init_error, threads>>

\* GridviewWindow and StageviewWindow: the mouse button is released at the
\* end of a rectangle drag.  The rectangle's set is the one the window
\* gathered from the universes when it was last drawn; the Patch and
\* Universes windows take no click while the button is held, so its members
\* are still patched.  The selection becomes list(set(selection) | in_rect).
MarqueeRelease(fixtures_in_rect) ==
    /\ fixtures_in_rect \subseteq AliveIds
    /\ \E order \in Orderings(Range(selected_fixtures) \cup fixtures_in_rect) :
           Leaves(universes, order, ev)
    /\ UNCHANGED <<layers, active_layer_name, driver_init_error, threads>>

\* the loop of _command_layer over the selection: each fixture's layer is
\* fetched (and made, when the fixture has none of that name) before the
\* channel is looked up in the fixture's profile
RECURSIVE CommandLayerLoop(_, _, _, _, _, _)
CommandLayerLoop(s, sel, i, layer_name, channel, value) ==
    IF i > Len(sel) THEN s
    ELSE LET p == Where(s.universes, sel[i])
             s1 == layers_getitem(s, p[1], p[2], layer_name)
             fixture == FixtureAt(s1.universes, p)
         IN  IF InChannelMap(fixture.profile, channel)
             THEN CommandLayerLoop(
                      [s1 EXCEPT !.universes[p[1]].fixtures[p[2]] =
                          Layer_setattr(s1.layers, fixture, layer_name, channel, value)],
                      sel, i + 1, layer_name, channel, value)
             ELSE CommandLayerLoop(s1, sel, i + 1, layer_name, channel, value)

\* _command_layer with its three arguments given
CommandLayer(layer_name, channel, value) ==
    /\ IF selected_fixtures = <<>>
       THEN /\ Leaves(universes, selected_fixtures,
                      [op |-> "layer", error |-> [kind |-> "noselection"]])
            /\ UNCHANGED layers
       ELSE IF ~(0 <= value /\ value <= DMX_MAX)
            THEN /\ Leaves(universes, selected_fixtures,
                           [op |-> "layer", error |-> [kind |-> "value"]])
                 /\ UNCHANGED layers
            ELSE LeavesShow(CommandLayerLoop(Show(layers, universes), selected_fixtures,
                                             1, layer_name, channel, value),
                            selected_fixtures, Done)
    /\ UNCHANGED <<active_layer_name, driver_init_error, threads>>

-----------------------------------------------------------------------------
(* The command line.  A text is a sequence of words (maximal runs of         *)
(* characters that are not blank) and blanks " ", with at least one blank    *)
(* between two words; the empty sequence is the empty string.                *)

\* str.split(): the words
split(text) == SelectSeq(text, LAMBDA w : w # " ")

\* int(word) for the words that are numerals; every other word raises ValueError
IntOf == ("-1" :> (0 - 1)) @@ ("0" :> 0) @@ ("1" :> 1) @@ ("2" :> 2)
             @@ ("200" :> 200) @@ ("255" :> 255) @@ ("256" :> 256)
IsInt(word) == word \in DOMAIN IntOf

\* the targets "*" and "@<text>"; target[1:] of "@<numeral>" is the numeral
AddressWords == ("@1" :> "1") @@ ("@2" :> "2") @@ ("@x" :> "x")

\* the names and aliases of _define_commands
CommandNames == {"help", "h", "select", "s", "add", "a", "clear", "c",
                 "layer", "l", "name", "n"}

\* what a handler reports when it refuses its arguments
Refused(op, kind) == [op |-> op, error |-> [kind |-> kind]]

\* a handler that returns a text and changes nothing the model holds
Reports(event) ==
    /\ Leaves(universes, selected_fixtures, event)
    /\ UNCHANGED <<layers, active_layer_name, driver_init_error, threads>>

\* _command_select and _command_add with their argument words: a target that
\* is neither "*" nor "@<numeral>" finds nothing here ("@x" by the caught
\* ValueError of int())
CommandWithTarget(op, args) ==
    IF args = <<>> THEN Reports(Refused(op, "usage"))
    ELSE IF args[1] = "*"
         THEN IF op = "select" THEN CommandSelect(AllTarget) ELSE CommandAdd(AllTarget)
         ELSE IF args[1] \in DOMAIN AddressWords /\ IsInt(AddressWords[args[1]])
              THEN LET target == AddressTarget(IntOf[AddressWords[args[1]]])
                   IN  IF op = "select" THEN CommandSelect(target)
                       ELSE CommandAdd(target)
              ELSE Reports(Refused(op, "notfound"))

\* _command_layer with its argument words
CommandLayerWords(args) ==
    IF Len(args) < 3 THEN Reports(Refused("layer", "usage"))
    ELSE IF selected_fixtures = <<>> THEN Reports(Refused("layer", "noselection"))
    ELSE IF ~IsInt(args[3]) THEN Reports(Refused("layer", "value"))
    ELSE CommandLayer(args[1], args[2], IntOf[args[3]])

\* _command_name with its argument words; the display names of the fixtures
\* are not part of the state
CommandName(args) ==
    IF args = <<>> THEN Reports(Refused("name", "usage"))
    ELSE IF selected_fixtures = <<>> THEN Reports(Refused("name", "noselection"))
    ELSE Reports(Done)

\* CommanderWindow._execute_command(command_str): "" returns at once;
\* split()[0] of a text of blanks raises IndexError before the try, and
\* nothing up to the loop of main() catches it
ExecuteCommand(command_str) ==
    IF command_str = <<>> THEN Reports(ev)
    ELSE LET parts == split(command_str)
         IN  IF parts = <<>>
             THEN Reports([op |-> "uncaught", error |-> [kind |-> "IndexError"]])
             ELSE LET cmd_name == parts[1]
                      args == Tail(parts)
                  IN  IF cmd_name \notin CommandNames
                      THEN Reports(Refused("execute", "unknown"))
                      ELSE IF cmd_name \in {"select", "s"}
                           THEN CommandWithTarget("select", args)
                      ELSE IF cmd_name \in {"add", "a"}
                           THEN CommandWithTarget("add", args)
                      ELSE IF cmd_name \in {"clear", "c"} THEN CommandClear
                      ELSE IF cmd_name \in {"layer", "l"} THEN CommandLayerWords(args)
                      ELSE IF cmd_name \in {"name", "n"} THEN CommandName(args)
                      ELSE Reports(Done)

\* CommanderWindow._update_autocomplete on a frame in which the focused input
\* holds a text that is not "": split()[0] again, with no try around it
UpdateAutocomplete(input_buffer) ==
    /\ input_buffer # <<>>
    /\ IF split(input_buffer) = <<>>
       THEN Reports([op |-> "uncaught", error |-> [kind |-> "IndexError"]])
       ELSE Reports(ev)

-----------------------------------------------------------------------------
(* LayersWindow.draw_content: "Add Layer", a priority slider, "Remove" *)

LayersAdd(new_layer_name) ==
    /\ IF new_layer_name = ""
       THEN /\ Leaves(universes, selected_fixtures,
                      [op |-> "add_layer", error |-> [kind |-> "empty"]])
            /\ UNCHANGED layers
       ELSE IF HasShowLayer(layers, new_layer_name)
            THEN /\ Leaves(universes, selected_fixtures,
                           [op |-> "add_layer", error |-> [kind |-> "exists"]])
                 /\ UNCHANGED layers
            ELSE LeavesShow(add_show_layer(Show(layers, universes), new_layer_name),
                            selected_fixtures, Done)
    /\ UNCHANGED <<active_layer_name, driver_init_error, threads>>

\* a variant of the slider's handler that recomposes nothing
RecomposeNone(reg, univs) == univs

\* for u in universes: for f in u.fixtures: f.compose()
RecomposeAll(reg, univs) == MapFixtures(univs, LAMBDA f : compose(reg, f))

\* the slider of row i reports a changed value
LayersSetPriority(i, new_priority) ==
    /\ i \in 1..Len(layers)
    /\ new_priority # layers[i].priority
    /\ LET reg == [layers EXCEPT ![i].priority = new_priority]
       IN  LeavesShow(Show(reg, RecomposeAll(reg, universes)), selected_fixtures, Done)
    /\ UNCHANGED <<active_layer_name, driver_init_error, threads>>

\* the "Remove" button of row i, drawn when more than one layer is registered
LayersRemove(i) ==
    /\ i \in 1..Len(layers)
    /\ Len(layers) > 1
    /\ LeavesShow(remove_show_layer(Show(layers, universes), layers[i].name),
                  selected_fixtures, Done)
    /\ UNCHANGED <<active_layer_name, driver_init_error, threads>>

-----------------------------------------------------------------------------
(* App.draw_main_menu_bar: the "Clear" menu; App.update_universes *)

\* layer_to_clear = fixture.layers[name]; dmx_values.fill(0); fixture.compose()
ClearLayer(reg, f, name) ==
    LET g == WithLayer(f, name)
    IN  compose(reg, [g EXCEPT !.layers[LayerIndex(g.layers, name)].dmx_values =
                                   Zeros(channel_count(g.profile))])

MenuClear(i) ==
    /\ i \in 1..Len(layers)
    /\ LeavesShow(Show(layers, MapFixtures(universes,
                                           LAMBDA f : ClearLayer(layers, f, layers[i].name))),
                  selected_fixtures, Done)
    /\ UNCHANGED <<active_layer_name, driver_init_error, threads>>

-----------------------------------------------------------------------------
(* The "Layer" menu, the fader window and the master window, with the        *)
(* channel type of the application at its initial INTENSITY.                 *)

\* the "Layer" menu of the main menu bar: entry i is clicked
MenuLayer(i) ==
    /\ i \in 1..Len(layers)
    /\ active_layer_name' = layers[i].name
    /\ UNCHANGED <<layers, universes, selected_fixtures, ev, driver_init_error, threads>>

\* FaderWindow._get_channel_name_for_type for INTENSITY: the name of the
\* channel of that type, in the profiles here the channel "intensity"
HasIntensity(profile) == InChannelMap(profile, "intensity")

\* list.sort(key=start_address), which is stable: id goes after the entries
\* whose address is not greater
RECURSIVE InsertByAddress(_, _, _)
InsertByAddress(sel, id, univs) ==
    IF sel = <<>> THEN <<id>>
    ELSE IF FixtureAt(univs, Where(univs, Head(sel))).start_address
                <= FixtureAt(univs, Where(univs, id)).start_address
         THEN <<Head(sel)>> \o InsertByAddress(Tail(sel), id, univs)
         ELSE <<id>> \o sel

RECURSIVE SortByAddress(_, _)
SortByAddress(sel, univs) ==
    IF sel = <<>> THEN <<>>
    ELSE InsertByAddress(SortByAddress(SubSeq(sel, 1, Len(sel) - 1), univs),
                         sel[Len(sel)], univs)

\* the loop over relevant_fixtures of FaderWindow.draw_content: the layer
\* named by active_layer_name is looked up in every fixture shown, and the
\* fader that was moved, if any, is written
RECURSIVE FaderLoop(_, _, _, _, _, _)
FaderLoop(s, shown, i, layer_name, moved, new_value) ==
    IF i > Len(shown) THEN s
    ELSE LET p == Where(s.universes, shown[i])
         IN  IF ~HasIntensity(FixtureAt(s.universes, p).profile)
             THEN FaderLoop(s, shown, i + 1, layer_name, moved, new_value)
             ELSE LET s1 == layers_getitem(s, p[1], p[2], layer_name)
                      fixture == FixtureAt(s1.universes, p)
                  IN  FaderLoop(
                          IF i = moved
                          THEN [s1 EXCEPT !.universes[p[1]].fixtures[p[2]] =
                                   Layer_setattr(s1.layers, fixture, layer_name,
                                                 "intensity", new_value)]
                          ELSE s1,
                          shown, i + 1, layer_name, moved, new_value)

\* FaderWindow.draw_content in the mode FOLLOW_SELECTION on a frame: the list
\* shown is the selection itself, which the sort reorders; fader number moved
\* is dragged to new_value, none if moved is 0
FaderDraw(moved, new_value) ==
    /\ LET shown == SortByAddress(selected_fixtures, universes)
       IN  LeavesShow(FaderLoop(Show(layers, universes), shown, 1, active_layer_name,
                                moved, new_value),
                      shown, ev)
    /\ UNCHANGED <<active_layer_name, driver_init_error, threads>>

\* the loop of MasterWindow.draw_content after the fader changed
RECURSIVE MasterLoop(_, _, _, _, _)
MasterLoop(s, target_fixtures, i, layer_name, master_level) ==
    IF i > Len(target_fixtures) THEN s
    ELSE LET p == Where(s.universes, target_fixtures[i])
         IN  IF ~InChannelMap(FixtureAt(s.universes, p).profile, "intensity")
             THEN MasterLoop(s, target_fixtures, i + 1, layer_name, master_level)
             ELSE LET s1 == layers_getitem(s, p[1], p[2], layer_name)
                      fixture == FixtureAt(s1.universes, p)
                  IN  MasterLoop(
                          [s1 EXCEPT !.universes[p[1]].fixtures[p[2]] =
                              Layer_setattr(s1.layers, fixture, layer_name,
                                            "intensity", master_level)],
                          target_fixtures, i + 1, layer_name, master_level)

\* MasterWindow.draw_content on a frame in which the master fader is moved to
\* new_level: the selection is the target, or every patched fixture if
\* nothing is selected
MasterFader(new_level) ==
    /\ LET target_fixtures == IF selected_fixtures # <<>> THEN selected_fixtures
                              ELSE IdsInOrder(universes, 1)
       IN  LeavesShow(MasterLoop(Show(layers, universes), target_fixtures, 1,
                                 active_layer_name, new_level),
                      selected_fixtures, ev)
    /\ UNCHANGED <<active_layer_name, driver_init_error, threads>>

\* the slots from..to of src copied over those of dst
CopySlots(dst, src, from, to) ==
    [a \in 1..UNIVERSE_SIZE |-> IF from <= a /\ a <= to THEN src[a] ELSE dst[a]]

\* DebugDMXDriver.update: the frame is printed
Debug_update(d, rendered) == d

\* a variant of FileLogDMXDriver.update that closes the file while disabled
\* and writes every frame whatever the interval
FileLog_update_unsampled(d, rendered) ==
    IF ~d.config.enabled THEN [d EXCEPT !.file_handle = "None"]
    ELSE IF d.file_handle = "None" THEN d
    ELSE [d EXCEPT !.frame_count = @ + 1,
                   !.written = Append(@, [frame_count |-> d.frame_count + 1,
                                          active_channels |-> {}])]

\* FileLogDMXDriver.update: nothing while disabled or without a handle;
\* otherwise the frame is counted, and every log_interval-th one is written
\* with its number and its channels above 0
FileLog_update(d, rendered) ==
    IF ~d.config.enabled \/ d.file_handle = "None" THEN d
    ELSE LET frame_count == d.frame_count + 1
             active_channels == {<<a, rendered[a]>> : a \in {b \in 1..UNIVERSE_SIZE : rendered[b] > 0}}
         IN  [d EXCEPT !.frame_count = frame_count,
                       !.written = IF frame_count % d.config.log_interval = 0
                                   THEN Append(@, [frame_count |-> frame_count,
                                                   active_channels |-> active_channels])
                                   ELSE @]

\* OlaDMXDriver.update from its first to its last instruction, the lock held
\* throughout
Ola_update(d, rendered) ==
    [d EXCEPT !.dmx_data = CopySlots(@, rendered, 1, UNIVERSE_SIZE),
              !.given = rendered]

\* driver.update(rendered) of whichever class the driver has
driver_update(d, rendered) ==
    IF d.kind = "OLA" THEN Ola_update(d, rendered)
    ELSE IF d.kind = "File Logger" THEN FileLog_update(d, rendered)
    ELSE Debug_update(d, rendered)

\* a variant of DMXUniverse.update that hands the frame to the driver twice
DMXUniverse_update_twice(u) ==
    LET out == render(u)
    IN  [u EXCEPT !.frame = out,
                  !.driver = IF u.driver = NoDriver THEN NoDriver
                             ELSE driver_update(driver_update(u.driver, out), out)]

\* DMXUniverse.update: render(), then driver.update(out) unless the driver
\* is None
DMXUniverse_update(u) ==
    LET out == render(u)
    IN  [u EXCEPT !.frame = out,
                  !.driver = IF u.driver = NoDriver THEN NoDriver
                             ELSE driver_update(u.driver, out)]

\* whether update() of the driver can run to its end now: no other thread
\* holds the lock of an OlaDMXDriver, and a file logger counts on
CanUpdate(d) ==
    /\ d.kind = "OLA" => d.lock = "free"
    /\ d.kind = "File Logger" => d.frame_count < MaxFrames

\* App.update_universes: DMXUniverse.update for every universe in turn
UpdateUniverses ==
    /\ \A ui \in 1..Len(universes) : CanUpdate(universes[ui].driver)
    /\ universes' = [ui \in 1..Len(universes) |-> DMXUniverse_update(universes[ui])]
    /\ UNCHANGED <<layers, selected_fixtures, active_layer_name, ev,
                 driver_init_error, threads>>

-----------------------------------------------------------------------------
(* The two threads of an OlaDMXDriver.  The main thread runs update() and    *)
(* the sender thread runs _ola_tick(); each copies the 512 slots in two      *)
(* steps, the lower half and then the upper half.                            *)

Half == UNIVERSE_SIZE \div 2

\* a lock that every thread gets at once
LockIgnored(lock) == TRUE

\* threading.Lock: "with self._lock" goes on when no thread holds the lock
LockFree(lock) == lock = "free"

IsOla(ui) == ui \in 1..Len(universes) /\ universes[ui].driver.kind = "OLA"

\* the main thread is not inside update() of any driver
MainThreadOut ==
    \A ui \in 1..Len(universes) :
        universes[ui].driver.kind = "OLA" => universes[ui].driver.update_pc = "out"

\* on_config_changed() can run to its end: join() returns when the call of
\* _ola_tick in progress has returned
CanJoin(ui) == IsOla(ui) => universes[ui].driver.tick_pc = "out"

\* DMXUniverse.update of a universe with an OlaDMXDriver, as far as into the
\* "with self._lock" of OlaDMXDriver.update
UniverseUpdate(ui) ==
    /\ IsOla(ui)
    /\ MainThreadOut
    /\ LockFree(universes[ui].driver.lock)
    /\ universes' = [universes EXCEPT ![ui].frame = render(universes[ui]),
                                      ![ui].driver.lock = "main",
                                      ![ui].driver.update_pc = "locked"]
    /\ UNCHANGED <<layers, selected_fixtures, active_layer_name, ev,
                 driver_init_error, threads>>

\* np.copyto(self._dmx_data, rendered), half by half, and the end of the
\* "with"
UpdateCopy(ui) ==
    /\ IsOla(ui)
    /\ universes[ui].driver.update_pc # "out"
    /\ LET u == universes[ui]
       IN  universes' =
               IF u.driver.update_pc = "locked"
               THEN [universes EXCEPT
                        ![ui].driver.dmx_data = CopySlots(@, u.frame, 1, Half),
                        ![ui].driver.update_pc = "half"]
               ELSE [universes EXCEPT
                        ![ui].driver.dmx_data = CopySlots(@, u.frame, Half + 1, UNIVERSE_SIZE),
                        ![ui].driver.update_pc = "out",
                        ![ui].driver.lock = "free",
                        ![ui].driver.given = u.frame]
    /\ UNCHANGED <<layers, selected_fixtures, active_layer_name, ev,
                 driver_init_error, threads>>

\* the wrapper runs a scheduled call of _ola_tick, as far as into its
\* "with self._lock"; the call schedules no further one
TickStart(ui) ==
    /\ IsOla(ui)
    /\ universes[ui].driver.wrapper = "running"
    /\ universes[ui].driver.events > 0
    /\ universes[ui].driver.tick_pc = "out"
    /\ LockFree(universes[ui].driver.lock)
    /\ universes' = [universes EXCEPT ![ui].driver.events = @ - 1,
                                      ![ui].driver.lock = "ola",
                                      ![ui].driver.tick_pc = "locked",
                                      ![ui].driver.taken = universes[ui].driver.given]
    /\ UNCHANGED <<layers, selected_fixtures, active_layer_name, ev,
                 driver_init_error, threads>>

\* data_to_send = self._dmx_data.tolist(), half by half, and the end of the
\* "with"
TickRead(ui) ==
    /\ IsOla(ui)
    /\ universes[ui].driver.tick_pc \in {"locked", "half"}
    /\ LET d == universes[ui].driver
       IN  universes' =
               IF d.tick_pc = "locked"
               THEN [universes EXCEPT
                        ![ui].driver.data_to_send = CopySlots(@, d.dmx_data, 1, Half),
                        ![ui].driver.tick_pc = "half"]
               ELSE [universes EXCEPT
                        ![ui].driver.data_to_send =
                            CopySlots(@, d.dmx_data, Half + 1, UNIVERSE_SIZE),
                        ![ui].driver.tick_pc = "unlocked",
                        ![ui].driver.lock = "free"]
    /\ UNCHANGED <<layers, selected_fixtures, active_layer_name, ev,
                 driver_init_error, threads>>

\* self._wrapper.Client().SendDmx(current_universe, data_to_send, ...) and
\* the return of _ola_tick
TickSend(ui) ==
    /\ IsOla(ui)
    /\ universes[ui].driver.tick_pc = "unlocked"
    /\ universes' = [universes EXCEPT
                        ![ui].driver.sent = universes[ui].driver.data_to_send,
                        ![ui].driver.tick_pc = "out"]
    /\ UNCHANGED <<layers, selected_fixtures, active_layer_name, ev,
                 driver_init_error, threads>>

-----------------------------------------------------------------------------
(* The addressing machine: universes are added and removed, fixtures are     *)
(* patched and removed.                                                      *)

PatchProfiles == {DIMMER, RGB_PAR}
PatchAddresses == {0, 2}
PatchCounts == {1, 2}

NextPatch ==
    \/ AddUniverse
    \/ \E ui \in 1..MaxUniverses : RemoveUniverse(ui)
    \/ \E ui \in 1..MaxUniverses, profile \in PatchProfiles,
          a \in PatchAddresses, n \in PatchCounts : PatchFixtures(ui, profile, a, n)
    \/ \E ui \in 1..MaxUniverses, fi \in 1..MaxFixtures : RemoveFixture(ui, fi)

SpecPatch == Init /\ [][NextPatch]_vars

(* The same machine with a profile that fills a universe, at the addresses   *)
(* around both ends of the universe.                                         *)

FitProfiles == {FULL_UNIVERSE, DIMMER}
FitAddresses == {1, 2, 512}
FitCounts == {1}

NextFit ==
    \/ AddUniverse
    \/ \E ui \in 1..MaxUniverses : RemoveUniverse(ui)
    \/ \E ui \in 1..MaxUniverses, profile \in FitProfiles,
          a \in FitAddresses, n \in FitCounts : PatchFixtures(ui, profile, a, n)
    \/ \E ui \in 1..MaxUniverses, fi \in 1..MaxFixtures : RemoveFixture(ui, fi)

SpecFit == Init /\ [][NextFit]_vars

-----------------------------------------------------------------------------
(* The composing machine: one fixture is patched at address 1 of the first   *)
(* universe, every fixture is selected, channels are written through the     *)
(* layers "manual" and "effects", and the priority sliders of these two      *)
(* layers are moved.  A write is <<layer, channel, value>>, a slider move is *)
(* <<row, priority>> with the priority in quarters.                          *)

ComposeProfiles == {DIMMER, RGB_PAR}
ComposeWrites ==
    ({"manual"} \X {"red", "green", "blue"} \X {0, 100})
        \cup ({"effects"} \X {"red", "green", "blue"} \X {0, 200})
        \cup ({"manual"} \X {"intensity"} \X {0, 1, 100, 255})
        \cup ({"effects"} \X {"intensity"} \X {0, 200})
ComposePriorities == {<<1, 3>>, <<1, 4>>, <<2, 0>>, <<2, 2>>, <<2, 4>>, <<2, 6>>}

NextCompose ==
    \/ AddUniverse
    \/ \E profile \in ComposeProfiles : PatchFixtures(1, profile, 1, 1)
    \/ CommandSelect(AllTarget)
    \/ \E w \in ComposeWrites : CommandLayer(w[1], w[2], w[3])
    \/ \E p \in ComposePriorities : LayersSetPriority(p[1], p[2])

SpecCompose == Init /\ [][NextCompose]_vars

(* The rendering machine: fixtures are patched at both ends of the first     *)
(* universe and removed, channels are written, frames are rendered.          *)

RenderProfiles == {DIMMER, RGB_PAR}
RenderAddresses == {1, 512}
RenderWrites == {<<"manual", "red", 255>>, <<"manual", "intensity", 255>>,
                 <<"manual", "intensity", 0>>}

NextRender ==
    \/ AddUniverse
    \/ \E profile \in RenderProfiles, a \in RenderAddresses :
           PatchFixtures(1, profile, a, 1)
    \/ \E fi \in 1..MaxFixtures : RemoveFixture(1, fi)
    \/ CommandSelect(AllTarget)
    \/ \E w \in RenderWrites : CommandLayer(w[1], w[2], w[3])
    \/ UpdateUniverses

SpecRender == Init /\ [][NextRender]_vars

(* The layer machine: fixtures are patched at address 1 of any universe,     *)
(* layers are added (by the window and by a command that names a layer       *)
(* nobody registered), cleared and removed, the "manual" slider is moved.    *)

LayerProfiles == {DIMMER, RGB_PAR}
LayerWrites == {<<"manual", "intensity", 255>>, <<"fx", "intensity", 255>>}
LayerNames == {"fx"}
LayerPriorities == {<<1, 0>>, <<1, 4>>}
LayerRows == {4, 5}

NextLayers ==
    \/ AddUniverse
    \/ \E ui \in 1..MaxUniverses, profile \in LayerProfiles :
           PatchFixtures(ui, profile, 1, 1)
    \/ CommandSelect(AllTarget)
    \/ \E w \in LayerWrites : CommandLayer(w[1], w[2], w[3])
    \/ \E name \in LayerNames : LayersAdd(name)
    \/ \E p \in LayerPriorities : LayersSetPriority(p[1], p[2])
    \/ \E i \in LayerRows : LayersRemove(i)
    \/ \E i \in LayerRows \cup {1} : MenuClear(i)

SpecLayers == Init /\ [][NextLayers]_vars

-----------------------------------------------------------------------------
(* The write machine: fixtures are patched at address 1 of any universe and  *)
(* channels of their "manual" layer are assigned directly, with values in    *)
(* and out of the byte range and with names in and out of the profile.       *)

WriteProfiles == {DIMMER, RGB_PAR}
WriteLayers == {"manual"}
WriteChannels == {"intensity", "red"}
WriteValues == {-1, 200, 256}

NextWrite ==
    \/ AddUniverse
    \/ \E ui \in 1..MaxUniverses, profile \in WriteProfiles :
           PatchFixtures(ui, profile, 1, 1)
    \/ \E ui \in 1..MaxUniverses, k \in 1..MaxFixtures, layer_name \in WriteLayers,
          name \in WriteChannels, value \in WriteValues :
           SetChannel(ui, k, layer_name, name, value)

SpecWrite == Init /\ [][NextWrite]_vars

-----------------------------------------------------------------------------
(* The driver machine: universes are added and removed, drivers are picked   *)
(* in the combo box and reconfigured through the popup, while olad runs or   *)
(* not and the log file can be opened or not.  A DriverInitError that leaves *)
(* a handler ends the application's loop.                                    *)

OlaConfigs == {[universe |-> 1], [universe |-> 2]}
FileLogConfigs ==
    {[enabled |-> TRUE, filename |-> "dmx_log.txt", log_interval |-> 1],
     [enabled |-> TRUE, filename |-> "", log_interval |-> 1]}
DriverConfigs == OlaConfigs \cup FileLogConfigs

NextDrivers ==
    /\ ev.op # "uncaught"
    /\ \/ AddUniverse
       \/ \E ui \in 1..MaxUniverses : RemoveUniverse(ui)
       \/ \E ui \in 1..MaxUniverses, new_name \in DriverNames,
             olad_running \in BOOLEAN, can_open_init \in BOOLEAN, can_open \in BOOLEAN :
              SelectDriver(ui, new_name, olad_running, can_open_init, can_open)
       \/ \E ui \in 1..MaxUniverses, temp_config \in DriverConfigs,
             olad_running \in BOOLEAN, can_open \in BOOLEAN :
              SaveConfig(ui, temp_config, olad_running, can_open)

SpecDrivers == Init /\ [][NextDrivers]_vars

-----------------------------------------------------------------------------
(* The selection machine: fixtures are patched one or two at a time from     *)
(* address 1, fixtures and universes are removed, and the selection is       *)
(* changed by the commands and by the mouse.                                 *)

SelectProfiles == {DIMMER}
SelectCounts == {1, 2}

NextSelect ==
    \/ AddUniverse
    \/ \E ui \in 1..MaxUniverses : RemoveUniverse(ui)
    \/ \E ui \in 1..MaxUniverses, profile \in SelectProfiles, n \in SelectCounts :
           PatchFixtures(ui, profile, 1, n)
    \/ \E ui \in 1..MaxUniverses, fi \in 1..MaxFixtures : RemoveFixture(ui, fi)
    \/ \E target \in {AllTarget, AddressTarget(1), AddressTarget(2)} :
           CommandSelect(target)
    \/ \E target \in {AllTarget, AddressTarget(1), AddressTarget(2)} :
           CommandAdd(target)
    \/ CommandClear
    \/ \E ui \in 1..MaxUniverses, k \in 1..MaxFixtures, toggle \in BOOLEAN :
           ClickFixture(ui, k, toggle)
    \/ \E ui \in 1..MaxUniverses, k \in 1..MaxFixtures : StageDragStart(ui, k)
    \/ \E fixtures_in_rect \in SUBSET AliveIds : MarqueeRelease(fixtures_in_rect)

SpecSelect == Init /\ [][NextSelect]_vars

-----------------------------------------------------------------------------
(* The removal machine: dimmers are patched at address 1 of any universe,    *)
(* their "cues" channel is written, and layers are removed by name, from one *)
(* fixture or from the show, with names that exist and a name that does not. *)

RemovalProfiles == {DIMMER}
RemovalNames == {"cues", "ghost"}
RemovalValues == {100, 200}

NextRemoval ==
    \/ AddUniverse
    \/ \E ui \in 1..MaxUniverses, profile \in RemovalProfiles :
           PatchFixtures(ui, profile, 1, 1)
    \/ \E ui \in 1..MaxUniverses, k \in 1..MaxFixtures, value \in RemovalValues :
           SetChannel(ui, k, "cues", "intensity", value)
    \/ \E ui \in 1..MaxUniverses, k \in 1..MaxFixtures, name \in RemovalNames :
           DelLayer(ui, k, name)
    \/ \E name \in RemovalNames : RemoveShowLayer(name)

SpecRemoval == Init /\ [][NextRemoval]_vars

-----------------------------------------------------------------------------
(* The command machine: dimmers are patched from address 1 and texts are     *)
(* typed and submitted: empty, blank, unknown, short of arguments, with      *)
(* arguments that do not parse, and well formed.  An exception that leaves   *)
(* a handler ends the application's loop.                                    *)

CommandTexts ==
    { <<>>, <<" ">>, <<" ", " ">>, <<"bogus">>, <<"help">>,
      <<"select">>, <<"s", " ", "*">>, <<"select", " ", "@1">>,
      <<"select", " ", "@x">>, <<"add", " ", "@2">>, <<"clear">>,
      <<"layer", " ", "manual">>,
      <<"layer", " ", "manual", " ", "intensity", " ", "abc">>,
      <<"layer", " ", "manual", " ", "intensity", " ", "256">>,
      <<" ", "l", " ", "manual", " ", "intensity", " ", "200">>,
      <<"layer", " ", "fx", " ", "red", " ", "200">>,
      <<"name">>, <<"name", " ", "spot">> }

NextCommand ==
    /\ ev.op # "uncaught"
    /\ \/ AddUniverse
       \/ \E ui \in 1..MaxUniverses, n \in {1, 2} : PatchFixtures(ui, DIMMER, 1, n)
       \/ \E command_str \in CommandTexts : ExecuteCommand(command_str)
       \/ \E input_buffer \in CommandTexts : UpdateAutocomplete(input_buffer)

SpecCommand == Init /\ [][NextCommand]_vars

-----------------------------------------------------------------------------
(* The sender machine: the first universe gets an OlaDMXDriver, which is     *)
(* reconfigured while olad runs or not; dimmers are patched at both ends of  *)
(* the universe and raised; the main thread renders and hands the frame to   *)
(* the driver while the sender thread ticks.                                 *)

SenderAddresses == {1, 512}
SenderValues == {200}
SenderDrivers == {"OLA", "None"}

NextSender ==
    \/ MainThreadOut /\ AddUniverse
    \/ \E a \in SenderAddresses : MainThreadOut /\ PatchFixtures(1, DIMMER, a, 1)
    \/ \E k \in 1..MaxFixtures, value \in SenderValues :
           MainThreadOut /\ SetChannel(1, k, "manual", "intensity", value)
    \/ \E new_name \in SenderDrivers :
           MainThreadOut /\ SelectDriver(1, new_name, TRUE, TRUE, TRUE)
    \/ \E temp_config \in OlaConfigs, olad_running \in BOOLEAN :
           MainThreadOut /\ CanJoin(1) /\ SaveConfig(1, temp_config, olad_running, TRUE)
    \/ UniverseUpdate(1)
    \/ UpdateCopy(1)
    \/ TickStart(1)
    \/ TickRead(1)
    \/ TickSend(1)

SpecSender == Init /\ [][NextSender]_vars

\* the wrapper runs what is scheduled on it, and a thread inside _ola_tick
\* goes on
SpecSenderFair ==
    /\ SpecSender
    /\ WF_vars(TickStart(1))
    /\ WF_vars(TickRead(1))
    /\ WF_vars(TickSend(1))

-----------------------------------------------------------------------------
(* The output machine: the first universe gets a file logger, which is       *)
(* disabled, enabled and given an interval of 2, with a log file that opens  *)
(* or not; the second gets an OlaDMXDriver and a dimmer, which is raised;    *)
(* the application draws frames.                                             *)

OutputDrivers == {<<1, "None">>, <<1, "File Logger">>, <<2, "None">>, <<2, "OLA">>}
OutputConfigs ==
    {[enabled |-> e, filename |-> "dmx_log.txt", log_interval |-> n] :
         e \in BOOLEAN, n \in {1, 2}}

NextOutput ==
    \/ AddUniverse
    \/ PatchFixtures(2, DIMMER, 1, 1)
    \/ SetChannel(2, 1, "manual", "intensity", 200)
    \/ \E s \in OutputDrivers : SelectDriver(s[1], s[2], TRUE, TRUE, TRUE)
    \/ \E temp_config \in OutputConfigs, can_open \in BOOLEAN :
           SaveConfig(1, temp_config, TRUE, can_open)
    \/ UpdateUniverses

SpecOutput == Init /\ [][NextOutput]_vars

-----------------------------------------------------------------------------
(* The active-layer machine: a dimmer is patched, selected and removed, a     *)
(* layer is added, any of the first two layers is made the active one, the  *)
(* first layer is removed, and the fader and master windows are drawn and    *)
(* moved.                                                                    *)

ActiveAddresses == {1}
ActiveRows == {1, 2}
ActiveLevels == {200}

NextActive ==
    \/ AddUniverse
    \/ \E a \in ActiveAddresses : PatchFixtures(1, DIMMER, a, 1)
    \/ RemoveFixture(1, 1)
    \/ CommandSelect(AllTarget)
    \/ LayersAdd("fx")
    \/ \E i \in ActiveRows : MenuLayer(i)
    \/ LayersRemove(1)
    \/ \E moved \in {0, 1}, new_value \in ActiveLevels : FaderDraw(moved, new_value)
    \/ \E new_level \in ActiveLevels : MasterFader(new_level)

SpecActive == Init /\ [][NextActive]_vars

-----------------------------------------------------------------------------
(* The blackout machine: the first universe logs its frames to a file; an    *)
(* RGB fixture is patched at address 1 or a dimmer at address 2, lit, and    *)
(* removed; the application draws frames.                                    *)

BlackoutPatches == {<<RGB_PAR, 1>>, <<DIMMER, 2>>}
BlackoutWrites == {<<"red", 255>>, <<"intensity", 255>>}

NextBlackout ==
    \/ AddUniverse
    \/ SelectDriver(1, "File Logger", TRUE, TRUE, TRUE)
    \/ \E patch \in BlackoutPatches : PatchFixtures(1, patch[1], patch[2], 1)
    \/ \E w \in BlackoutWrites : SetChannel(1, 1, "manual", w[1], w[2])
    \/ RemoveFixture(1, 1)
    \/ UpdateUniverses

SpecBlackout == Init /\ [][NextBlackout]_vars

-----------------------------------------------------------------------------
(* Addressing properties *)

\* what every step of PatchFixtures(ui, ...) keeps: the universes other than
\* ui and the number of universes (a cheap test that tells most other steps
\* apart from such a step)
KeepsOthers(ui) ==
    /\ Len(universes') = Len(universes)
    /\ \A uj \in 1..Len(universes) : uj # ui => universes'[uj] = universes[uj]

\* the addresses a fixture of this profile occupies when it starts at start
AddressRange(profile, start) == start..(start + channel_count(profile) - 1)
RangeOf(f) == AddressRange(f.profile, f.start_address)

\* C1: in every reachable state of the addressing machine, no two distinct
\* fixtures patched in one universe have intersecting address ranges
\* [start_address, start_address + channel_count - 1].
C1_RangesDisjoint ==
    \A ui \in 1..Len(universes) :
        \A i, j \in 1..Len(universes[ui].fixtures) :
            i # j => RangeOf(universes[ui].fixtures[i])
                         \cap RangeOf(universes[ui].fixtures[j]) = {}

\* a universe holds two fixtures that touch (one starts right after the other
\* ends) and the last patch was refused for a conflict
C1_Witness ==
    /\ ev.op = "patch" /\ ev.error.kind = "conflict"
    /\ \E ui \in 1..Len(universes) :
           \E i, j \in 1..Len(universes[ui].fixtures) :
               universes[ui].fixtures[j].start_address
                   = fixture_end(universes[ui].fixtures[i]) + 1

\* C2: a patch whose first fixture fits the universe but shares an address with
\* a fixture already patched there fails with the conflict error, the error
\* names an existing fixture (its model and start address) whose range meets
\* the new one, and the universe's fixture list is what it was before.
C2_Step ==
    \A ui \in 1..Len(universes), profile \in PatchProfiles,
       a \in PatchAddresses, n \in PatchCounts :
        LET start == Max(1, a)
            before == universes[ui].fixtures
        IN  ( /\ FitsInUniverse(profile, start)
              /\ \E k \in 1..Len(before) :
                     AddressRange(profile, start) \cap RangeOf(before[k]) # {}
              /\ KeepsOthers(ui)
              /\ PatchFixtures(ui, profile, a, n) )
            => /\ ev'.op = "patch" /\ ev'.error.kind = "conflict"
               /\ ev'.error.model = profile.model /\ ev'.error.at = start
               /\ \E k \in 1..Len(before) :
                      /\ before[k].start_address = ev'.error.existing_start
                      /\ before[k].profile.model = ev'.error.existing_model
                      /\ AddressRange(profile, start) \cap RangeOf(before[k]) # {}
               /\ universes'[ui].fixtures = before

C2_ConflictRefused == [][C2_Step]_vars

\* a patch was refused for a conflict with a fixture that is still patched
C2_Witness ==
    /\ ev.op = "patch" /\ ev.error.kind = "conflict"
    /\ \E ui \in 1..Len(universes) : \E k \in 1..Len(universes[ui].fixtures) :
           /\ universes[ui].fixtures[k].start_address = ev.error.existing_start
           /\ universes[ui].fixtures[k].start_address # ev.error.at

\* C3: every patched fixture's range lies inside [1, 512]; a patch whose
\* first fixture does not satisfy 1 <= a and a + c - 1 <= 512 is refused and
\* changes no universe; a 512-channel profile is accepted at address 1 of an
\* empty universe and refused at address 2.
C3_InRange ==
    \A ui \in 1..Len(universes) : \A k \in 1..Len(universes[ui].fixtures) :
        RangeOf(universes[ui].fixtures[k]) \subseteq 1..UNIVERSE_SIZE

C3_Step ==
    \A ui \in 1..Len(universes), profile \in FitProfiles,
       a \in FitAddresses, n \in FitCounts :
        LET start == Max(1, a)
            fits == 1 <= start /\ start + channel_count(profile) - 1 <= UNIVERSE_SIZE
        IN  /\ (~fits /\ KeepsOthers(ui) /\ PatchFixtures(ui, profile, a, n))
               => /\ ev'.error.kind \in {"nofit", "overflow"}
                  /\ universes' = universes
            /\ (profile = FULL_UNIVERSE /\ start = 1 /\ n = 1
                    /\ universes[ui].fixtures = <<>>
                    /\ KeepsOthers(ui)
                    /\ PatchFixtures(ui, profile, a, n))
               => /\ ev'.error = NoError
                  /\ Len(universes'[ui].fixtures) = 1
                  /\ universes'[ui].fixtures[1].profile = FULL_UNIVERSE
                  /\ universes'[ui].fixtures[1].start_address = 1
            /\ (profile = FULL_UNIVERSE /\ start = 2
                    /\ KeepsOthers(ui)
                    /\ PatchFixtures(ui, profile, a, n))
               => /\ ev'.error.kind \in {"nofit", "overflow"}
                  /\ universes' = universes

C3_FitsUniverse == []C3_InRange /\ [][C3_Step]_vars

\* a universe holds the 512-channel fixture at address 1, and the last patch, of
\* the same profile at address 2, was refused
C3_Witness ==
    /\ ev.op = "patch" /\ ev.error.kind = "nofit"
    /\ ev.error.model = FULL_UNIVERSE.model /\ ev.error.at = 2
    /\ \E ui \in 1..Len(universes) :
           /\ Len(universes[ui].fixtures) = 1
           /\ universes[ui].fixtures[1].profile = FULL_UNIVERSE
           /\ universes[ui].fixtures[1].start_address = 1

-----------------------------------------------------------------------------
(* Composition properties.  Products are in quarter units, as in compose.   *)

PatchedFixtures == AllFixtures(universes)
Channels(f) == 1..channel_count(f.profile)

\* the layers of f that compose() lets contribute: registered, priority > 0
Contributing(reg, f) ==
    {k \in 1..Len(f.layers) :
        /\ HasShowLayer(reg, f.layers[k].name)
        /\ get_show_layer(reg, f.layers[k].name).priority > 0}

\* layer value times global priority, for channel i of layer k
Product(reg, f, k, i) ==
    f.layers[k].dmx_values[i] * get_show_layer(reg, f.layers[k].name).priority

SetMax(S) == IF S = {} THEN 0 ELSE CHOOSE x \in S : \A y \in S : y <= x
MaxProduct(reg, f, i) == SetMax({Product(reg, f, k, i) : k \in Contributing(reg, f)})

\* clamp to [0, 255], then the integers nearest to q quarters: one integer,
\* or the two neighbours when q lies halfway between them
Capped(q) == Min(Max(q, 0), DMX_MAX * DEFAULT_PRIORITY)
Nearest(q) == {(q + 1) \div DEFAULT_PRIORITY, (q + 2) \div DEFAULT_PRIORITY}

\* C4: after compose(), every channel of a fixture holds the maximum, over the
\* fixture's layers with a global priority above 0, of layer value times
\* priority (0 when there is no such layer), as the byte store of C5 keeps
\* it: rounded to a nearest integer and clamped to [0, 255].
C4_ComposedIsMaximum ==
    \A f \in PatchedFixtures : \A i \in Channels(f) :
        f.final[i] \in Nearest(Capped(MaxProduct(layers, f, i)))

\* C5: when one layer alone gives a channel a value v under priority p > 0, the
\* byte that compose() stores is clamp(round(v * p)): never the truncation of
\* a product whose fraction is above one half.
C5_StoreRounds ==
    \A f \in PatchedFixtures : \A i \in Channels(f) :
        \A k \in Contributing(layers, f) :
            (\A j \in 1..Len(f.layers) : j # k => f.layers[j].dmx_values[i] = 0)
                => f.final[i] \in Nearest(Capped(Product(layers, f, k, i)))

\* the fixture without its layer k
WithoutLayer(f, k) == [f EXCEPT !.layers = RemoveAt(f.layers, k)]

\* C6: a layer whose global priority is 0 does not affect the composed output:
\* whatever the layer holds, the composed array is the composition of the
\* fixture's other layers alone.
C6_ZeroPriorityIgnored ==
    \A f \in PatchedFixtures : \A k \in 1..Len(f.layers) :
        (/\ HasShowLayer(layers, f.layers[k].name)
         /\ get_show_layer(layers, f.layers[k].name).priority = 0)
            => f.final = ComposedValues(layers, f.profile, WithoutLayer(f, k).layers)

\* "effects" is at priority 0 and holds 200 where "manual" holds 100, and the
\* channel composes to 100
C6_Witness ==
    /\ HasShowLayer(layers, "effects")
    /\ get_show_layer(layers, "effects").priority = 0
    /\ get_show_layer(layers, "manual").priority = DEFAULT_PRIORITY
    /\ \E f \in PatchedFixtures : \E i \in Channels(f) :
           /\ f.layers[LayerIndex(f.layers, "effects")].dmx_values[i] = 200
           /\ f.layers[LayerIndex(f.layers, "manual")].dmx_values[i] = 100
           /\ f.final[i] = 100

\* every layer of f but the one called layer_name is all zero
OthersZero(f, layer_name) ==
    \A k \in 1..Len(f.layers) :
        f.layers[k].name # layer_name
            => f.layers[k].dmx_values = Zeros(channel_count(f.profile))

\* C7: round trip: after the command that writes V to channel C on layer L, a
\* selected fixture that has channel C reads V as its composed value for C,
\* provided L has priority 1.0 and every other layer of the fixture is all
\* zero.
C7_Step ==
    \A w \in ComposeWrites :
        (selected_fixtures # <<>> /\ CommandLayer(w[1], w[2], w[3]))
            => \A id \in Range(selected_fixtures) :
                   LET f == FixtureAt(universes', Where(universes', id))
                   IN  (/\ InChannelMap(f.profile, w[2])
                        /\ get_show_layer(layers', w[1]).priority = DEFAULT_PRIORITY
                        /\ OthersZero(f, w[1]))
                           => f.final[relative_offset(f.profile, w[2]) + 1] = w[3]

C7_RoundTrip == [][C7_Step]_vars

\* 255 was written to "intensity" on "manual", the only nonzero layer, at
\* priority 1.0, and the selected fixture reads 255
C7_Witness ==
    /\ ev = Done
    /\ get_show_layer(layers, "manual").priority = DEFAULT_PRIORITY
    /\ \E f \in PatchedFixtures :
           /\ f.id \in Range(selected_fixtures)
           /\ f.profile = DIMMER
           /\ f.layers[LayerIndex(f.layers, "manual")].dmx_values = <<255>>
           /\ OthersZero(f, "manual")
           /\ f.final = <<255>>

-----------------------------------------------------------------------------
(* Rendering and layer properties *)

\* the fixtures of a universe whose range holds address a (slot a - 1)
Covering(fixtures, a) == {k \in 1..Len(fixtures) : a \in RangeOf(fixtures[k])}

\* a universe that holds one RGB fixture at address 1 with red = 255 on
\* "manual" and nothing else set
OnlyRedRgb(u) ==
    /\ Len(u.fixtures) = 1
    /\ u.fixtures[1].profile = RGB_PAR
    /\ u.fixtures[1].start_address = 1
    /\ u.fixtures[1].layers[LayerIndex(u.fixtures[1].layers, "manual")].dmx_values
           = <<255, 0, 0>>
    /\ OthersZero(u.fixtures[1], "manual")

RedFrame == [a \in 1..UNIVERSE_SIZE |-> IF a = 1 THEN 255 ELSE 0]

\* C8: the frame that update() takes from render() has 512 slots; slot
\* start_address - 1 + k holds value k of the cached composed array of the
\* fixture patched there, and a slot that no patched fixture covers holds 0;
\* one RGB fixture at address 1 with red = 255 on "manual" at priority 1.0
\* gives 255 in slot 0 and 0 in slots 1..511.
C8_Step ==
    UpdateUniverses =>
        \A ui \in 1..Len(universes) :
            LET u == universes[ui]
                frame == universes'[ui].frame
            IN  /\ Len(frame) = UNIVERSE_SIZE
                /\ \A a \in 1..UNIVERSE_SIZE :
                       IF Covering(u.fixtures, a) = {} THEN frame[a] = 0
                       ELSE \A k \in Covering(u.fixtures, a) :
                                frame[a] = u.fixtures[k].final[a - u.fixtures[k].start_address + 1]
                /\ (OnlyRedRgb(u)
                        /\ get_show_layer(layers, "manual").priority = DEFAULT_PRIORITY)
                       => frame = RedFrame

C8_RenderCopies == [][C8_Step]_vars

\* the frame of a universe that holds the one red RGB fixture shows 255 in
\* slot 0 and 0 elsewhere
C8_Witness ==
    \E ui \in 1..Len(universes) :
        /\ OnlyRedRgb(universes[ui])
        /\ universes[ui].frame = RedFrame

\* C9: after every handler (a channel write through a layer, a priority
\* change, a layer removal, a Clear, a patch), the cached composed array of
\* each patched fixture is what compose() makes of the fixture's current
\* layer values under the current global priorities; in particular a priority
\* change has recomposed the fixtures of every universe.
C9_CacheIsCurrent ==
    \A f \in PatchedFixtures : f.final = ComposedValues(layers, f.profile, f.layers)

\* "manual" was turned down to 0 while two universes each held a fixture with
\* intensity 255 on "manual", and both fixtures read 0
C9_Witness ==
    /\ get_show_layer(layers, "manual").priority = 0
    /\ Len(universes) >= 2
    /\ \A ui \in 1..2 :
           /\ Len(universes[ui].fixtures) = 1
           /\ universes[ui].fixtures[1].profile = DIMMER
           /\ universes[ui].fixtures[1]
                  .layers[LayerIndex(universes[ui].fixtures[1].layers, "manual")]
                  .dmx_values = <<255>>
           /\ universes[ui].fixtures[1].final = <<0>>

\* how many entries of a list of named records carry this name
CountNamed(named, name) == Cardinality({i \in 1..Len(named) : named[i].name = name})

\* C10: when the layer command asks the selected fixtures for a layer whose
\* name no ShowLayer carries, the registry gains one ShowLayer of that name,
\* with priority 1.0, after the ones it had, and every patched fixture of
\* every universe then has one layer of that name, all zero on the fixtures
\* that are not selected.
C10_Step ==
    \A w \in LayerWrites :
        (/\ ~HasShowLayer(layers, w[1])
         /\ selected_fixtures # <<>>
         /\ CommandLayer(w[1], w[2], w[3]))
            => /\ layers' = Append(layers, [name |-> w[1], priority |-> DEFAULT_PRIORITY])
               /\ CountNamed(layers', w[1]) = 1
               /\ \A f \in AllFixtures(universes') :
                      /\ CountNamed(f.layers, w[1]) = 1
                      /\ f.id \notin Range(selected_fixtures)
                             => f.layers[LayerIndex(f.layers, w[1])].dmx_values
                                    = Zeros(channel_count(f.profile))

C10_RegisteredOnce == [][C10_Step]_vars

\* "fx" is registered once at priority 1.0; a selected fixture holds 255 on
\* its "fx" layer and a fixture that is not selected has an "fx" layer of
\* zeros
C10_Witness ==
    /\ CountNamed(layers, "fx") = 1
    /\ get_show_layer(layers, "fx").priority = DEFAULT_PRIORITY
    /\ \E f, g \in PatchedFixtures :
           /\ f.id \in Range(selected_fixtures)
           /\ g.id \notin Range(selected_fixtures)
           /\ HasLayer(f.layers, "fx") /\ HasLayer(g.layers, "fx")
           /\ f.layers[LayerIndex(f.layers, "fx")].dmx_values = <<255>>
           /\ g.layers[LayerIndex(g.layers, "fx")].dmx_values
                  = Zeros(channel_count(g.profile))

-----------------------------------------------------------------------------
(* Layer removal and write validation *)

\* the layers of f that are not called name, in their order
LayersBut(f, name) == SelectSeq(f.layers, LAMBDA l : l.name # name)

\* C11: after the "Remove" button of a registered layer has run
\* remove_show_layer(name), the registry holds no ShowLayer of that name, no
\* fixture patched in any universe has a layer of that name, every such
\* fixture keeps its other layers as they were, and its composed array is the
\* composition of those remaining layers.
C11_Step ==
    \A i \in LayerRows :
        (i \in 1..Len(layers) /\ Len(layers) > 1 /\ LayersRemove(i))
            => LET name == layers[i].name
               IN  /\ ~HasShowLayer(layers', name)
                   /\ Positions(universes') = Positions(universes)
                   /\ \A p \in Positions(universes) :
                          LET before == FixtureAt(universes, p)
                              after == FixtureAt(universes', p)
                          IN  /\ ~HasLayer(after.layers, name)
                              /\ after.layers = LayersBut(before, name)
                              /\ after.final = ComposedValues(layers', after.profile,
                                                              LayersBut(before, name))

C11_LayerRemoved == [][C11_Step]_vars

\* "fx" was registered and removed again ("cues" went first, so the registry is
\* down to three layers); two universes each hold a fixture with 255 on
\* "manual", no "fx" layer, and a composed value of 255
C11_Witness ==
    /\ Len(layers) = 3
    /\ ~HasShowLayer(layers, "fx") /\ ~HasShowLayer(layers, "cues")
    /\ get_show_layer(layers, "manual").priority = DEFAULT_PRIORITY
    /\ Len(universes) >= 2
    /\ \A ui \in 1..2 :
           /\ Len(universes[ui].fixtures) = 1
           /\ universes[ui].fixtures[1].profile = DIMMER
           /\ ~HasLayer(universes[ui].fixtures[1].layers, "fx")
           /\ ~HasLayer(universes[ui].fixtures[1].layers, "cues")
           /\ universes[ui].fixtures[1]
                  .layers[LayerIndex(universes[ui].fixtures[1].layers, "manual")]
                  .dmx_values = <<255>>
           /\ universes[ui].fixtures[1].final = <<255>>

\* C12: a write of a value outside 0..255 to a channel of the profile fails
\* with the ValueError, and it leaves every layer's channel values and every
\* composed array as they were.
C12_Step ==
    \A ui \in 1..MaxUniverses, k \in 1..MaxFixtures, layer_name \in WriteLayers,
       name \in WriteChannels, value \in WriteValues :
        (/\ ~(0 <= value /\ value <= DMX_MAX)
         /\ ui \in 1..Len(universes)
         /\ k \in 1..Len(universes[ui].fixtures)
         /\ InChannelMap(universes[ui].fixtures[k].profile, name)
         /\ SetChannel(ui, k, layer_name, name, value))
            => /\ ev' = [op |-> "setattr", error |-> [kind |-> "value"]]
               /\ universes' = universes

C12_OutOfRangeRefused == [][C12_Step]_vars

\* a refused write after an accepted one: the dimmer still holds 200 on
\* "manual" and in its composed array
C12_Witness ==
    /\ ev = [op |-> "setattr", error |-> [kind |-> "value"]]
    /\ \E p \in Positions(universes) :
           LET f == FixtureAt(universes, p)
           IN  /\ f.profile = DIMMER
               /\ f.layers[LayerIndex(f.layers, "manual")].dmx_values = <<200>>
               /\ f.final = <<200>>

\* C13: a write to a name that is not a channel of the fixture's profile fails
\* with an unknown-channel error; it is never accepted without one.
C13_Step ==
    \A ui \in 1..MaxUniverses, k \in 1..MaxFixtures, layer_name \in WriteLayers,
       name \in WriteChannels, value \in WriteValues :
        (/\ ui \in 1..Len(universes)
         /\ k \in 1..Len(universes[ui].fixtures)
         /\ ~InChannelMap(universes[ui].fixtures[k].profile, name)
         /\ SetChannel(ui, k, layer_name, name, value))
            => /\ ev'.op = "setattr"
               /\ ev'.error # NoError

C13_UnknownChannelRefused == [][C13_Step]_vars

\* C14: a patch of N >= 1 fixtures that fails for any one of them changes
\* nothing: the target universe's fixture list after the failure is the list
\* before the operation.
C14_Step ==
    \A ui \in 1..Len(universes), profile \in PatchProfiles,
       a \in PatchAddresses, n \in PatchCounts :
        ( /\ KeepsOthers(ui)
          /\ PatchLoop(layers, universes[ui].fixtures, profile, Max(1, a), 0, n,
                       FreshIds(ReferencedIds, n)).error # NoError
          /\ PatchFixtures(ui, profile, a, n) )
            => universes'[ui].fixtures = universes[ui].fixtures

C14_FailedPatchChangesNothing == [][C14_Step]_vars

-----------------------------------------------------------------------------
(* Driver properties *)

\* the universe rows other than ui are as they were
OtherRowsKept(ui) ==
    /\ Len(universes') = Len(universes)
    /\ \A uj \in 1..Len(universes) : uj # ui => universes'[uj] = universes[uj]

\* C15: when the operator picks a driver for a universe and its
\* on_config_changed() raises DriverInitError, the universe's driver slot is
\* None afterwards, no thread was started for the driver, the error text is
\* in driver_init_error, and the exception does not leave the handler.
C15_Step ==
    \A ui \in 1..MaxUniverses, new_name \in DRIVERS,
       olad_running \in BOOLEAN, can_open_init \in BOOLEAN, can_open \in BOOLEAN :
        ( /\ ui \in 1..Len(universes)
          /\ OtherRowsKept(ui)
          /\ new_name = "OLA" /\ ~olad_running
          /\ SelectDriver(ui, new_name, olad_running, can_open_init, can_open) )
            => /\ universes'[ui].driver = NoDriver
               /\ driver_init_error' = OLAD_NOT_RUNNING
               /\ threads' = threads
               /\ ev'.op = "driver" /\ ev'.error = DriverInitError

C15_FailedSelectionLeavesNone == [][C15_Step]_vars

\* the selection of OLA failed for a universe, whose slot is None, while
\* another universe has a running OLA driver
C15_Witness ==
    /\ ev = [op |-> "driver", error |-> DriverInitError]
    /\ driver_init_error = OLAD_NOT_RUNNING
    /\ \E ui \in 1..Len(universes) : universes[ui].driver = NoDriver
    /\ \E ui \in 1..Len(universes) :
           /\ universes[ui].driver.kind = "OLA"
           /\ universes[ui].driver.wrapper = "running"

\* C16: a DriverInitError that on_config_changed() raises when the operator
\* saves an edited configuration of an attached driver is caught where it is
\* called: it does not leave the handler, and the universe's driver slot is
\* None afterwards.
C16_Step ==
    \A ui \in 1..MaxUniverses, temp_config \in DriverConfigs,
       olad_running \in BOOLEAN, can_open \in BOOLEAN :
        ( /\ ui \in 1..Len(universes)
          /\ OtherRowsKept(ui)
          /\ universes[ui].driver.kind = "OLA" /\ ~olad_running
          /\ SaveConfig(ui, temp_config, olad_running, can_open) )
            => /\ ev'.op # "uncaught"
               /\ universes'[ui].driver = NoDriver

C16_SaveCatchesInitError == [][C16_Step]_vars

\* C17: a file-logging driver that cannot open the log file named in its
\* configuration is never attached to a universe: every attached File Logger
\* with a file name has its file open.
C17_FailedLoggerNotAttached ==
    \A ui \in 1..Len(universes) :
        (universes[ui].driver.kind = "File Logger"
            /\ universes[ui].driver.config.filename # "")
            => universes[ui].driver.file_handle = "open"

\* C18: a successful on_config_changed() on an attached network driver with
\* the configuration it already has leaves the driver as it was, with a
\* running wrapper, and exactly one sender thread of that driver alive,
\* however many such calls came before.
C18_Step ==
    \A ui \in 1..MaxUniverses, can_open \in BOOLEAN :
        ( /\ ui \in 1..Len(universes)
          /\ OtherRowsKept(ui)
          /\ universes[ui].driver.kind = "OLA"
          /\ SaveConfig(ui, universes[ui].driver.config, TRUE, can_open) )
            => /\ universes'[ui].driver.kind = "OLA"
               /\ universes'[ui].driver.id = universes[ui].driver.id
               /\ universes'[ui].driver.config = universes[ui].driver.config
               /\ universes'[ui].driver.wrapper = "running"
               /\ CopiesIn(universes[ui].driver.id, threads') = 1

C18_ReconfigurationKeepsOneThread == [][C18_Step]_vars

\* a configuration was saved for a network driver that runs with its default
\* configuration and one thread, next to a second running network driver
C18_Witness ==
    /\ ev = [op |-> "save", error |-> NoError]
    /\ BagCardinality(threads) = 2
    /\ Len(universes) = 2
    /\ \A ui \in 1..2 :
           /\ universes[ui].driver.kind = "OLA"
           /\ universes[ui].driver.wrapper = "running"
           /\ universes[ui].driver.config = [universe |-> 1]
           /\ CopiesIn(universes[ui].driver.id, threads) = 1

\* C19: in no reachable state is a sender thread alive for a network driver
\* that is attached to no universe.
C19_NoOrphanThread ==
    \A id \in DOMAIN threads :
        \E ui \in 1..Len(universes) :
            /\ universes[ui].driver.kind = "OLA"
            /\ universes[ui].driver.id = id

-----------------------------------------------------------------------------
(* Selection properties *)

\* C20: in every reachable state every fixture of the selection is patched in
\* some universe; the removal of a fixture or of a universe takes the
\* fixtures it unpatches out of the selection.
C20_SelectionPatched ==
    \A i \in 1..Len(selected_fixtures) : selected_fixtures[i] \in AliveIds

\* a universe is left with one fixture at address 2, so the fixture patched
\* with it at address 1 was removed, and that remaining fixture is selected
C20_Witness ==
    \E ui \in 1..Len(universes) :
        /\ Len(universes[ui].fixtures) = 1
        /\ universes[ui].fixtures[1].start_address = 2
        /\ selected_fixtures = <<universes[ui].fixtures[1].id>>

-----------------------------------------------------------------------------
(* Properties of removal by name, of the command shell and of the output *)

\* C21: the removal of a layer by a name that is absent, from one fixture's
\* layers or from the registry of the show, fails with a not-found error and
\* changes no state; the removal of a layer that is present leaves every
\* fixture that had it composed from its remaining layers.
C21_Step ==
    /\ \A ui \in 1..MaxUniverses, k \in 1..MaxFixtures, name \in RemovalNames :
           ( /\ ui \in 1..Len(universes)
             /\ k \in 1..Len(universes[ui].fixtures)
             /\ DelLayer(ui, k, name) )
               => IF HasLayer(universes[ui].fixtures[k].layers, name)
                  THEN universes'[ui].fixtures[k].final
                           = ComposedValues(layers, universes[ui].fixtures[k].profile,
                                            LayersBut(universes[ui].fixtures[k], name))
                  ELSE /\ ev'.error.kind = "KeyError"
                       /\ universes' = universes
    /\ \A name \in RemovalNames :
           RemoveShowLayer(name)
               => IF HasShowLayer(layers, name)
                  THEN \A p \in Positions(universes) :
                           FixtureAt(universes', p).final
                               = ComposedValues(layers', FixtureAt(universes, p).profile,
                                                LayersBut(FixtureAt(universes, p), name))
                  ELSE /\ ev'.error # NoError
                       /\ universes' = universes /\ layers' = layers

C21_AbsentLayerRefused == [][C21_Step]_vars

\* C22: whatever text is submitted to the command line, its handling ends
\* with a reported result: no exception leaves the handler for the loop of
\* the application.
C22_NoExceptionLeavesShell == ev.op # "uncaught"

\* C23: what a tick of an OlaDMXDriver sends is one whole frame that
\* update() was given: the last one whose copy was complete when the tick
\* took the lock, or the frame of zeros if there was none; it is never made
\* of two frames, and a frame that was replaced before the tick is not sent.
C23_WholeLatestFrameSent ==
    \A ui \in 1..Len(universes) :
        universes[ui].driver.kind = "OLA" /\ universes[ui].driver.tick_pc = "unlocked"
            => universes[ui].driver.data_to_send = universes[ui].driver.taken

\* a tick has sent a frame with both dimmers up, after the buffer held a
\* frame with one of them up
C23_Witness ==
    \E ui \in 1..Len(universes) :
        /\ universes[ui].driver.kind = "OLA"
        /\ universes[ui].driver.sent # <<>>
        /\ universes[ui].driver.sent[1] = 200
        /\ universes[ui].driver.sent[UNIVERSE_SIZE] = 200
        /\ universes[ui].driver.update_pc = "half"

\* C24: while an OlaDMXDriver is active its sender keeps ticking: after a
\* frame was sent another send follows, without any call of update().
C24_TickRecurs ==
    []( ( /\ IsOla(1)
          /\ universes[1].driver.wrapper = "running"
          /\ universes[1].driver.sent # <<>>
          /\ universes[1].driver.tick_pc = "out" )
        => <>( \/ ~IsOla(1)
               \/ universes[1].driver.wrapper # "running"
               \/ universes[1].driver.tick_pc = "unlocked" ) )

\* C25: a tick of a universe renders the frame and then hands that frame to
\* the driver exactly once, and calls no driver when the slot is None; one
\* frame of the application ticks every universe exactly once.
C25_Step ==
    UpdateUniverses =>
        /\ Len(universes') = Len(universes)
        /\ \A ui \in 1..Len(universes) :
               LET u == universes[ui]
                   d == u.driver
                   after == universes'[ui]
               IN  /\ after.frame = render(u)
                   /\ after.fixtures = u.fixtures
                   /\ d = NoDriver => after.driver = NoDriver
                   /\ d.kind = "OLA" =>
                          /\ after.driver.dmx_data = render(u)
                          /\ after.driver = [d EXCEPT !.dmx_data = render(u),
                                                      !.given = render(u)]
                   /\ d.kind = "File Logger" =>
                          after.driver.frame_count =
                              IF d.config.enabled /\ d.file_handle = "open"
                              THEN d.frame_count + 1 ELSE d.frame_count

C25_EveryUniverseTickedOnce == [][C25_Step]_vars

\* a frame went to both drivers: the logger has counted two frames and the
\* buffer of the OlaDMXDriver holds the raised dimmer
C25_Witness ==
    /\ Len(universes) >= 2
    /\ universes[1].driver.kind = "File Logger"
    /\ universes[1].driver.frame_count = 2
    /\ universes[2].driver.kind = "OLA"
    /\ universes[2].driver.dmx_data[1] = 200
    /\ universes[2].frame[1] = 200

\* C27: a file logger that is enabled and has its file open counts every
\* frame it is given and writes the frames whose number is a multiple of
\* log_interval, and no other; while disabled, update() writes nothing,
\* counts nothing and leaves the handle open, and a Save that opens the file
\* again leaves the handle open whatever it does to enabled.
C27_Step ==
    /\ UpdateUniverses =>
           \A ui \in 1..Len(universes) :
               LET d == universes[ui].driver
                   after == universes'[ui].driver
               IN  d.kind = "File Logger" =>
                       /\ after.file_handle = d.file_handle
                       /\ after.config = d.config
                       /\ ~d.config.enabled => after = d
                       /\ d.config.enabled /\ d.file_handle = "open" =>
                              /\ after.frame_count = d.frame_count + 1
                              /\ IF after.frame_count % d.config.log_interval = 0
                                 THEN /\ Len(after.written) = Len(d.written) + 1
                                      /\ SubSeq(after.written, 1, Len(d.written)) = d.written
                                      /\ after.written[Len(after.written)].frame_count
                                             = after.frame_count
                                 ELSE after.written = d.written
    /\ \A temp_config \in OutputConfigs :
           ( /\ Len(universes) >= 1
             /\ universes[1].driver.kind = "File Logger"
             /\ universes[1].driver.file_handle = "open"
             /\ SaveConfig(1, temp_config, TRUE, TRUE) )
           => /\ universes'[1].driver.file_handle = "open"
              /\ universes'[1].driver.written = universes[1].driver.written
              /\ universes'[1].driver.frame_count = universes[1].driver.frame_count

LayerCommandRejected(channel, value) ==
    /\ selected_fixtures # <<>>
    /\ \/ ~(0 <= value /\ value <= DMX_MAX)
       \/ \A i \in 1..Len(selected_fixtures) :
              ~InChannelMap(FixtureAt(universes, Where(universes, selected_fixtures[i])).profile,
                            channel)

\* C26: a layer command that is turned down, for a value that is not an
\* integer in 0..255 or for a channel that no selected fixture has, changes
\* nothing: the layer values, the composed output, the layer set of every
\* fixture and the registry of the show are as before.
C26_Step ==
    \A layer_name \in {"manual", "fx"}, channel \in {"intensity", "red"},
       value \in {200, 256} :
        ( /\ LayerCommandRejected(channel, value)
          /\ CommandLayer(layer_name, channel, value) )
        => /\ layers' = layers
           /\ universes' = universes

C26_RejectedLayerCommandChangesNothing == [][C26_Step]_vars

\* the names of the registry of the show
RegistryNames == {layers[i].name : i \in 1..Len(layers)}

C29_ActiveLayerRegistered == active_layer_name \in RegistryNames

\* C30: once a fixture is removed from a universe, every frame rendered
\* afterwards is 0 on each slot of its former range that no patched fixture
\* covers, whatever the removed fixture had composed: a rendered frame is 0
\* on every slot that no fixture patched at that tick covers.
C30_Step ==
    UpdateUniverses =>
        \A ui \in 1..Len(universes) :
            \A a \in 1..UNIVERSE_SIZE :
                Covering(universes[ui].fixtures, a) = {} => universes'[ui].frame[a] = 0

C30_RemovedFixtureGoesDark == [][C30_Step]_vars

\* the log shows a frame with slot 1 lit by the RGB fixture at address 1,
\* and as its last frame one with only slot 2 lit, by the dimmer that now is
\* the only fixture of the universe
C30_Witness ==
    /\ Len(universes) >= 1
    /\ universes[1].driver.kind = "File Logger"
    /\ Len(universes[1].fixtures) = 1
    /\ universes[1].fixtures[1].profile = DIMMER
    /\ universes[1].fixtures[1].start_address = 2
    /\ LET written == universes[1].driver.written
       IN  /\ Len(written) >= 2
           /\ \E i \in 1..(Len(written) - 1) :
                  <<1, 255>> \in written[i].active_channels
           /\ written[Len(written)].active_channels = {<<2, 255>>}
    /\ universes[1].frame[1] = 0
    /\ universes[1].frame[2] = 255
    /\ universes[1].frame[3] = 0

====
